---------------------------- MODULE Spec2Model ----------------------------
(***************************************************************************)
(* A state-machine model of cheer-reader's Readability.parse(): the        *)
(* document is an arena of nodes (dom), every handler of the pipeline is   *)
(* one action, and the loops that mutate the tree while they walk it are   *)
(* modelled one iteration per step.                                        *)
(*                                                                         *)
(* Conventions.                                                            *)
(*   - dom is a sequence of node records indexed by node identity; node 1  *)
(*     is the cheerio root (type 'root'), a text node has tag "#text", a   *)
(*     comment "#comment".  A node that no kids list mentions is detached. *)
(*   - text is a sequence of code points (97 is 'a'), so that trim, the    *)
(*     whitespace normalisation, tokenising and the comma / sentence       *)
(*     patterns are computed and not assumed.                              *)
(*   - el.attribs is a set of <<name, value>> pairs.                       *)
(*   - a regular expression applied to a class or id is the set of the     *)
(*     class / id words used by the documents below that it matches.       *)
(*   - contentScore is an exact fraction <<num, den>>, << >> when the      *)
(*     property is undefined.                                              *)
(*   - $page.html(pageCacheHtml) is a serialise / parse round trip of      *)
(*     cheerio (not part of the sources); it is modelled as restoring the  *)
(*     body subtree as it was when the cache was taken, without the object *)
(*     properties (contentScore, _readabilityDataTable) of the old nodes.  *)
(***************************************************************************)
EXTENDS Integers, Sequences, FiniteSets, TLC

VARIABLES
    dom,            \* the node arena: this.$ and every node created from it
    opts,           \* this.options
    pc,             \* position in parse() / grabArticle()
    flags,          \* this.flags
    attempts,       \* this.attempts
    articleTitle,   \* this.articleTitle
    articleByline,  \* this.articleByline
    metadata,       \* the local `metadata` of parse()
    loc,            \* the locals of grabArticle() and of the loop in progress
    pageCache,      \* pageCacheHtml
    thrown,         \* the error parse() threw (message "" when none)
    result,         \* the record parse() returned (pc = "done")
    console,        \* what this.log has handed to console.log, in order
    earlier         \* an earlier parse() of a copy of the same document, to compare with

vars == <<dom, opts, pc, flags, attempts, articleTitle, articleByline,
          metadata, loc, pageCache, thrown, result, console, earlier>>

-----------------------------------------------------------------------------
(* Sequences and exact fractions                                           *)

Range(s) == {s[i] : i \in 1..Len(s)}

InSeq(x, s) == \E i \in 1..Len(s) : s[i] = x

IndexOf(x, s) == CHOOSE i \in 1..Len(s) : s[i] = x

RemoveAt(s, i) == SubSeq(s, 1, i - 1) \o SubSeq(s, i + 1, Len(s))

InsertAt(s, i, x) == SubSeq(s, 1, i - 1) \o <<x>> \o SubSeq(s, i, Len(s))

Without(s, x) == SelectSeq(s, LAMBDA y : y # x)

Reverse(s) == [i \in 1..Len(s) |-> s[Len(s) + 1 - i]]

RECURSIVE SumSeq(_)
SumSeq(s) == IF s = <<>> THEN 0 ELSE Head(s) + SumSeq(Tail(s))

RECURSIVE Flatten(_)
Flatten(ss) == IF ss = <<>> THEN <<>> ELSE Head(ss) \o Flatten(Tail(ss))

Min(a, b) == IF a < b THEN a ELSE b

Max(a, b) == IF a > b THEN a ELSE b

Abs(a) == IF a < 0 THEN -a ELSE a

RECURSIVE Gcd(_, _)
Gcd(a, b) == IF b = 0 THEN a ELSE Gcd(b, a % b)

\* the fraction n / d in lowest terms, d > 0
Frac(n, d) ==
    LET g == Gcd(Abs(n), Abs(d))
        s == IF d < 0 THEN -1 ELSE 1
    IN  IF n = 0 THEN <<0, 1>> ELSE <<(s * n) \div g, (s * d) \div g>>

FAdd(x, y) == Frac(x[1] * y[2] + y[1] * x[2], x[2] * y[2])

FMul(x, y) == Frac(x[1] * y[1], x[2] * y[2])

FLess(x, y) == x[1] * y[2] < y[1] * x[2]

FLeq(x, y) == x[1] * y[2] <= y[1] * x[2]

-----------------------------------------------------------------------------
(* Text                                                                    *)

\* the characters \s matches among those used: tab, line feed, carriage return, space
WS == {9, 10, 13, 32}

\* regexes.whitespace  /^\s*$/
IsBlank(t) == \A i \in 1..Len(t) : t[i] \in WS

RECURSIVE TrimLeft(_)
TrimLeft(t) == IF t # <<>> /\ Head(t) \in WS THEN TrimLeft(Tail(t)) ELSE t

\* String.prototype.trim
Trim(t) == Reverse(TrimLeft(Reverse(TrimLeft(t))))

\* str.replace(regexes.normalize, ' ') with normalize = /\s{2,}/g: a run of two
\* or more whitespace characters becomes one space, a single one is kept.
\* The characters lo..hi of t are rewritten, half by half.
RECURSIVE NormalizeSpacesIn(_, _, _)
NormalizeSpacesIn(t, lo, hi) ==
    IF lo > hi THEN <<>>
    ELSE IF lo < hi
    THEN LET mid == (lo + hi) \div 2
         IN  NormalizeSpacesIn(t, lo, mid) \o NormalizeSpacesIn(t, mid + 1, hi)
    ELSE IF t[lo] \notin WS THEN <<t[lo]>>
    ELSE IF lo > 1 /\ t[lo - 1] \in WS THEN <<>>
    ELSE IF lo < Len(t) /\ t[lo + 1] \in WS THEN <<32>>
    ELSE <<t[lo]>>

NormalizeSpaces(t) == NormalizeSpacesIn(t \o <<>>, 1, Len(t))

\* the number of occurrences of a character of cs in t
CountIn(t, cs) == Cardinality({i \in 1..Len(t) : t[i] \in cs})

\* k copies of the text t
RECURSIVE Rep(_, _)
Rep(t, k) == IF k = 0 THEN <<>> ELSE t \o Rep(t, k - 1)

-----------------------------------------------------------------------------
(* The tree (cheerio / domhandler nodes)                                   *)

Root == 1

NonElementTags == {"#root", "#text", "#comment"}

Nodes(d) == 1..Len(d)

IsElem(d, n) == d[n].tag \notin NonElementTags

IsText(d, n) == d[n].tag = "#text"

\* node.parentNode, 0 for null
Parent(d, n) == d[n].up

\* $(n).children(): the element children
ElemKids(d, n) == SelectSeq(d[n].kids, LAMBDA k : IsElem(d, k))

\* the proper descendants of n in document order
RECURSIVE DescSeq(_, _)
DescSeq(d, ks) ==
    IF ks = <<>> THEN <<>>
    ELSE <<Head(ks)>> \o DescSeq(d, d[Head(ks)].kids) \o DescSeq(d, Tail(ks))

Desc(d, n) == DescSeq(d, d[n].kids)

\* $(n).find(tags): the descendant elements with one of the tags, in document order
Find(d, n, tags) == SelectSeq(Desc(d, n), LAMBDA k : d[k].tag \in tags)

\* $(n).find('*') / $('*')
FindAll(d, n) == SelectSeq(Desc(d, n), LAMBDA k : IsElem(d, k))

\* the ancestors of n, nearest first (node.parentNode chain, the root included)
RECURSIVE Ancestors(_, _)
Ancestors(d, n) ==
    LET p == Parent(d, n) IN IF p = 0 THEN <<>> ELSE <<p>> \o Ancestors(d, p)

\* $(n).text(): the text of the text nodes under n (or of n), in document order
RECURSIVE TextOfSeq(_, _)
TextOfSeq(d, ks) ==
    IF ks = <<>> THEN <<>>
    ELSE (IF IsText(d, Head(ks)) THEN d[Head(ks)].data
          ELSE IF d[Head(ks)].tag = "#comment" THEN <<>>
          ELSE TextOfSeq(d, d[Head(ks)].kids))
         \o TextOfSeq(d, Tail(ks))

TextOf(d, n) == TextOfSeq(d, <<n>>)

\* el.attribs[name] / $(n).attr(name); Absent stands for undefined
Absent == "<undefined>"

HasAttr(d, n, a) == \E p \in d[n].attribs : p[1] = a

Attr(d, n, a) ==
    IF HasAttr(d, n, a) THEN (CHOOSE p \in d[n].attribs : p[1] = a)[2] ELSE Absent

\* $(n).attr(name, value)
SetAttr(d, n, a, v) ==
    [d EXCEPT ![n].attribs = {p \in @ : p[1] # a} \cup {<<a, v>>}]

\* delete el.attribs[name] / $(n).removeAttr(name)
DelAttr(d, n, a) == [d EXCEPT ![n].attribs = {p \in @ : p[1] # a}]

\* $(n).remove(): n leaves its parent's children; n keeps its own subtree
Detach(d, n) ==
    LET p == Parent(d, n)
    IN  IF p = 0 THEN d ELSE [d EXCEPT ![p].kids = Without(@, n), ![n].up = 0]

\* $(p).append(n): n is moved to the end of p's children
AppendChild(d, p, n) ==
    LET d1 == Detach(d, n) IN [d1 EXCEPT ![p].kids = Append(@, n), ![n].up = p]

RECURSIVE AppendAll(_, _, _)
AppendAll(d, p, ns) ==
    IF ns = <<>> THEN d ELSE AppendAll(AppendChild(d, p, Head(ns)), p, Tail(ns))

\* $(old).replaceWith(new): new takes old's place, old is detached
ReplaceWith(d, old, new) ==
    LET p  == Parent(d, old)
        d1 == IF new = old THEN d ELSE Detach(d, new)
    IN  IF p = 0 \/ new = old THEN d1
        ELSE [d1 EXCEPT ![p].kids =
                          [i \in 1..Len(@) |-> IF @[i] = old THEN new ELSE @[i]],
                      ![new].up = p,
                      ![old].up = 0]

NewRecord(t, as, txt) ==
    [tag |-> t, attribs |-> as, data |-> txt, kids |-> <<>>, up |-> 0,
     score |-> <<>>, dataTable |-> "undefined"]

\* $('<tag></tag>'): a fresh detached element; its identity is Len(d) + 1
Created(d) == Len(d) + 1

NewElem(d, t) == Append(d, NewRecord(t, {}, <<>>))

NewText(d, txt) == Append(d, NewRecord("#text", {}, txt))

\* node.nextSibling / node.previousSibling (any node type), 0 for null
NextSibling(d, n) ==
    LET p == Parent(d, n)
    IN  IF p = 0 THEN 0
        ELSE LET i == IndexOf(n, d[p].kids)
             IN  IF i < Len(d[p].kids) THEN d[p].kids[i + 1] ELSE 0

\* $(n).next(): the next element sibling, 0 when there is none
NextElem(d, n) ==
    LET p == Parent(d, n)
    IN  IF p = 0 THEN 0
        ELSE LET ks == d[p].kids
                 i  == IndexOf(n, ks)
                 after == SelectSeq(SubSeq(ks, i + 1, Len(ks)), LAMBDA k : IsElem(d, k))
             IN  IF after = <<>> THEN 0 ELSE Head(after)

\* $(n).parent(): cheerio gives the empty selection for a child of the root document
CheerioParent(d, n) ==
    LET p == Parent(d, n) IN IF p = 0 \/ d[p].tag = "#root" THEN 0 ELSE p


-----------------------------------------------------------------------------
(* Documents: tree literals and their layout in the arena                  *)

\* an element literal and a text literal
E(t, as, ks) == [t |-> t, a |-> as, x |-> <<>>, k |-> ks]

T(txt) == [t |-> "#text", a |-> {}, x |-> txt, k |-> <<>>]

RECURSIVE TreeSize(_)
TreeSize(t) == 1 + SumSeq([i \in 1..Len(t.k) |-> TreeSize(t.k[i])])

\* the node records of the literal t, its root getting identity id and parent
\* up, its descendants the following identities in document order
RECURSIVE Arena(_, _, _)
Arena(t, id, up) ==
    LET n == Len(t.k)
        start(i) == id + 1 + SumSeq([j \in 1..(i - 1) |-> TreeSize(t.k[j])])
    IN  <<[NewRecord(t.t, t.a, t.x) EXCEPT !.kids = [i \in 1..n |-> start(i)],
                                           !.up = up]>>
        \o Flatten([i \in 1..n |-> Arena(t.k[i], start(i), id)])

\* the characters of the texts the documents use
Word == <<97, 97, 97, 97>>

\* 'aaaa, aaaa, aaaa aaaa aaaa aaaa.' (32 characters, two commas, ends a sentence)
TLong ==
    Word \o <<44, 32>> \o Word \o <<44, 32>> \o Word \o <<32>> \o Word
    \o <<32>> \o Word \o <<32>> \o Word \o <<46>>

\* 'aaaa aaaa.'
TShort == Word \o <<32>> \o Word \o <<46>>

\* 'bb bb' : a text that shares no word with the others
TOther == <<98, 98, 32, 98, 98>>

TSpace == <<32>>

\* attribute values the regular expressions of the program are applied to
VideoUrl == "//www.youtube.com/embed/x"

OtherUrl == "https://example.org/frame"

\* options.allowedVideoRegex (regexes.videos by default) on the values above
allowedVideoRegex(v) == v = VideoUrl

\* the title of the documents that have one, and the description their metadata gives
TTitle == TShort

\* 'desc'
TDescription == <<100, 101, 115, 99>>

-----------------------------------------------------------------------------
(* The documents parse() is run on: <html><head>..</head><body>..</body></html> *)
(* with one of the heads below and, as the children of <body>, the fragments    *)
(* of a set of at most MaxFragments fragments, in the order of the list.        *)

MaxFragments == 2

P(as, txt) == E("p", as, <<T(txt)>>)

\* 1: an article container with two paragraphs, one carrying presentational attributes
FArticle ==
    <<E("div", {<<"class", "content">>},
        <<P({<<"style", "color:red">>, <<"align", "left">>, <<"width", "10">>,
             <<"class", "story">>}, TLong),
          P({}, TLong)>>)>>

\* 2: a lone paragraph and a short one
FParas == <<P({}, TLong), P({}, TShort)>>

\* 3: a block with a negative class that holds a paragraph and an allowed video
FPromoVideo ==
    <<E("div", {<<"class", "promo">>},
        <<P({}, TLong), E("iframe", {<<"src", VideoUrl>>}, <<>>)>>)>>

\* 4: an allowed video and another frame, as in the test of the custom video regex
FFrames ==
    <<E("iframe", {<<"src", VideoUrl>>}, <<>>),
      E("iframe", {<<"src", OtherUrl>>}, <<>>)>>

\* 5: a one-cell table that the data-table rules keep (it has a summary)
FCellTable ==
    <<E("table", {<<"summary", "s">>, <<"width", "100">>},
        <<E("tbody", {},
            <<E("tr", {}, <<E("td", {<<"width", "9">>, <<"bgcolor", "red">>}, <<>>)>>)>>)>>)>>

\* 6: an <svg> with styled content
FSvg ==
    <<E("svg", {<<"style", "fill:red">>, <<"width", "5">>},
        <<E("g", {<<"style", "fill:blue">>}, <<>>)>>)>>

\* 7: headings: an <h1> repeating the title, and an <h1> and an <h2> that do not
FHeadings ==
    <<E("h1", {}, <<T(TTitle)>>), E("h1", {<<"class", "story">>}, <<T(TOther)>>),
      E("h2", {<<"class", "promo">>}, <<T(TOther)>>)>>

\* 8: an image whose srcset holds a URL that `new URL` rejects, and a lazy one
\* with a placeholder src
FImages ==
    <<E("img", {<<"src", "a.png">>, <<"srcset", "http://[ 1x">>}, <<>>),
      E("img", {<<"src", "data:image/gif;base64,R0">>, <<"data-src", "c.png">>,
                <<"srcset", "b.png 1x">>, <<"height", "3">>}, <<>>)>>

\* 9: an unlikely candidate that holds text
FSidebar == <<E("div", {<<"class", "sidebar">>}, <<P({}, TLong), P({}, TLong)>>)>>

\* 10: a <br> chain between two texts, and a <font>
FBreaks ==
    <<T(TShort), E("br", {}, <<>>), T(TSpace), E("br", {}, <<>>),
      E("font", {}, <<T(TLong)>>), T(TSpace)>>

\* 11: a <div> with white space, phrasing runs around a block, and a javascript: link
FMixedDiv ==
    <<E("div", {<<"class", "x">>},
        <<T(TSpace), T(TShort), E("span", {}, <<T(TShort)>>), T(TSpace),
          E("div", {}, <<E("div", {<<"id", "inner">>}, <<P({}, TLong)>>)>>),
          E("a", {<<"href", "javascript:void(0)">>}, <<T(TOther)>>)>>)>>

\* 12: a byline and a share block inside a wrapper
FByline ==
    <<E("div", {},
        <<E("span", {<<"class", "author">>}, <<T(TOther)>>),
          E("div", {<<"class", "share">>}, <<P({}, TShort)>>),
          P({}, TLong)>>)>>

\* a block with a favoured class whose text is a quarter link text
FLinked ==
    <<E("div", {<<"class", "content">>},
        <<P({}, TLong), E("a", {<<"href", "http://fakehost/a.html">>}, <<T(TShort)>>)>>)>>

Fragments ==
    <<FArticle, FParas, FPromoVideo, FFrames, FCellTable, FSvg, FHeadings,
      FImages, FSidebar, FBreaks, FMixedDiv, FByline>>

\* a head without metadata, and one with a title, a description and JSON-LD
HeadPlain == E("head", {}, <<>>)

\* the text {  : JSON.parse throws on it
TJsonMalformed == <<123>>

\* the text {"@context":"https://schema.org","@type":"Article","description":"ld"}
TJsonArticle ==
    <<123, 34, 64, 99, 111, 110, 116, 101, 120, 116, 34, 58, 34, 104, 116,
      116, 112, 115, 58, 47, 47, 115, 99, 104, 101, 109, 97, 46, 111, 114,
      103, 34, 44, 34, 64, 116, 121, 112, 101, 34, 58, 34, 65, 114, 116,
      105, 99, 108, 101, 34, 44, 34, 100, 101, 115, 99, 114, 105, 112, 116,
      105, 111, 110, 34, 58, 34, 108, 100, 34, 125>>

HeadMeta ==
    E("head", {},
      <<E("title", {}, <<T(TTitle)>>),
        E("meta", {<<"name", "description">>, <<"content", "desc">>}, <<>>),
        E("script", {<<"type", "application/ld+json">>}, <<T(TJsonMalformed)>>)>>)

HeadJson ==
    E("head", {},
      <<E("title", {}, <<T(TTitle)>>),
        E("script", {<<"type", "application/ld+json">>}, <<T(TJsonArticle)>>)>>)

\* a head whose metadata come from several sources at once: JSON-LD, og:, the
\* bare names and twitter: for the description, og: and the bare name for the author
HeadSources ==
    E("head", {},
      <<E("title", {}, <<T(TTitle)>>),
        E("meta", {<<"name", "twitter:description">>, <<"content", "tw">>}, <<>>),
        E("meta", {<<"name", "description">>, <<"content", "desc">>}, <<>>),
        E("meta", {<<"property", "og:description">>, <<"content", "og">>}, <<>>),
        E("meta", {<<"property", "og:author">>, <<"content", "og">>}, <<>>),
        E("meta", {<<"name", "author">>, <<"content", "au">>}, <<>>),
        E("script", {<<"type", "application/ld+json">>}, <<T(TJsonArticle)>>)>>)

\* a head with a twitter: description before a bare one, and a publication time
HeadLate ==
    E("head", {},
      <<E("meta", {<<"name", "twitter:description">>, <<"content", "tw">>}, <<>>),
        E("meta", {<<"name", "description">>, <<"content", "desc">>}, <<>>),
        E("meta", {<<"property", "article:published_time">>, <<"content", "au">>}, <<>>)>>)

\* the children of <body> for a set of fragment indexes
BodyOf(fs) ==
    Flatten([i \in 1..Len(Fragments) |-> IF i \in fs THEN Fragments[i] ELSE <<>>])

\* the document that load() makes of <html ...><head>...</head><body>...</body></html>
DocumentWith(as, head, kids) ==
    Arena(E("#root", {}, <<E("html", as, <<head, E("body", {}, kids)>>)>>), Root, 0)

DocumentOf(head, fs) == DocumentWith({<<"lang", "en">>}, head, BodyOf(fs))

\* the characters of the attribute values the program reads as text
AttrChars(v) ==
    IF v = "desc" THEN TDescription
    ELSE IF v = "og" THEN <<111, 103>>
    ELSE IF v = "tw" THEN <<116, 119>>
    ELSE IF v = "au" THEN <<97, 117>>
    ELSE <<>>

\* JSON.parse(content) for the script texts the documents use: parses is FALSE
\* when JSON.parse throws, context / type tell whether '@context' and '@type'
\* match, and a field that is not a string is << >>
NoJson ==
    [parses |-> FALSE, context |-> FALSE, type |-> FALSE, name |-> <<>>,
     headline |-> <<>>, author |-> <<>>, description |-> <<>>,
     publisher |-> <<>>, datePublished |-> <<>>]

JsonParse(content) ==
    IF content = TJsonArticle
    THEN [NoJson EXCEPT !.parses = TRUE, !.context = TRUE, !.type = TRUE,
                        !.description = <<108, 100>>]
    ELSE IF content = <<123, 125>> THEN [NoJson EXCEPT !.parses = TRUE]
    ELSE NoJson

-----------------------------------------------------------------------------
(* Options                                                                 *)

DEFAULT_MAX_ELEMS_TO_PARSE == 0

DEFAULT_N_TOP_CANDIDATES == 5

DEFAULT_CHAR_THRESHOLD == 500

\* the largest maxElemsToParse tried besides 0
MaxElems == 6

DEFAULT_OPTIONS ==
    [maxElemsToParse |-> DEFAULT_MAX_ELEMS_TO_PARSE,
     nbTopCandidates |-> DEFAULT_N_TOP_CANDIDATES,
     charThreshold |-> DEFAULT_CHAR_THRESHOLD,
     classesToPreserve |-> {"page"},
     keepClasses |-> FALSE,
     disableJSONLD |-> FALSE,
     linkDensityModifier |-> 0,
     extraction |-> TRUE,
     baseURI |-> Absent,
     debug |-> FALSE]

\* the defaults with a threshold that the short documents used here can reach
Lenient == [DEFAULT_OPTIONS EXCEPT !.charThreshold = 20]

\* the calls tried: a head for the document, and the options given with it
Scenarios ==
    {<<HeadPlain, DEFAULT_OPTIONS>>,
     <<HeadMeta, DEFAULT_OPTIONS>>,
     <<HeadPlain, Lenient>>,
     <<HeadMeta, Lenient>>,
     <<HeadJson, Lenient>>,
     <<HeadMeta, [Lenient EXCEPT !.extraction = FALSE]>>,
     <<HeadJson, [Lenient EXCEPT !.disableJSONLD = TRUE]>>,
     <<HeadPlain, [Lenient EXCEPT !.classesToPreserve = {"story"}]>>,
     <<HeadPlain, [Lenient EXCEPT !.keepClasses = TRUE]>>,
     <<HeadPlain, [Lenient EXCEPT !.baseURI = "http://fakehost/"]>>,
     <<HeadSources, [Lenient EXCEPT !.extraction = FALSE]>>,
     <<HeadSources, [Lenient EXCEPT !.extraction = FALSE, !.disableJSONLD = TRUE]>>,
     <<HeadLate, [Lenient EXCEPT !.extraction = FALSE]>>}
    \cup {<<HeadPlain, [Lenient EXCEPT !.maxElemsToParse = m]>> :
             m \in (MaxElems - 2)..MaxElems}

-----------------------------------------------------------------------------
(* State after `new Readability($, options)`                               *)

FLAG_STRIP_UNLIKELYS == 1

FLAG_WEIGHT_CLASSES == 2

FLAG_CLEAN_CONDITIONALLY == 4

Null == <<>>

NoMetadata ==
    [title |-> Null, byline |-> Null, excerpt |-> Null, siteName |-> Null,
     publishedTime |-> Null]

\* the locals of grabArticle() before its first pass
NoLocals ==
    [node |-> 0, elementsToScore |-> <<>>, shouldRemoveTitleHeader |-> TRUE,
     p |-> 0, childNode |-> 0, children |-> <<>>,
     candidates |-> <<>>, c |-> 0, topCandidates |-> <<>>, topCandidate |-> 0,
     neededToCreateTopCandidate |-> FALSE, parentOfTopCandidate |-> 0,
     articleContent |-> 0, siblings |-> <<>>, s |-> 0, sl |-> 0,
     step |-> 0, brs |-> <<>>, textLength |-> 0,
     articleDir |-> Null, articleLang |-> Null]

NoError == [message |-> "", numTags |-> 0]

\* a string field is Null for null; content is << >> for null and otherwise
\* <<r>>, standing for serializer(r): the inner HTML of node r; length is << >> or <<n>>
NoResult ==
    [title |-> Null, byline |-> Null, dir |-> Null, lang |-> Null,
     content |-> Null, textContent |-> Null, length |-> Null, excerpt |-> Null,
     siteName |-> Null, publishedTime |-> Null]

FragmentSets == {fs \in SUBSET (1..Len(Fragments)) : Cardinality(fs) <= MaxFragments}

AllFlags == {FLAG_STRIP_UNLIKELYS, FLAG_WEIGHT_CLASSES, FLAG_CLEAN_CONDITIONALLY}

\* no earlier parse(): only the document as it was handed over is kept
NoEarlier(document) ==
    [document |-> document, ended |-> "", dom |-> <<>>, result |-> NoResult,
     thrown |-> NoError]

\* the state after `new Readability($, options)` for the calls of a set
InitWith(scenarios, tails) ==
    \E sc \in scenarios, fs \in FragmentSets, tl \in tails :
        /\ dom = DocumentWith({<<"lang", "en">>}, sc[1], BodyOf(fs) \o tl)
        /\ opts = sc[2]
        /\ pc = "parse"
        /\ flags = AllFlags
        /\ attempts = <<>>
        /\ articleTitle = Null
        /\ articleByline = Null
        /\ metadata = NoMetadata
        /\ loc = NoLocals
        /\ pageCache = <<>>
        /\ thrown = NoError
        /\ result = NoResult
        /\ console = <<>>
        /\ earlier = NoEarlier(dom)

InitOf(scenarios) == InitWith(scenarios, {<<>>})

Init == InitOf(Scenarios)

-----------------------------------------------------------------------------
(* log(...args)                                                            *)

\* a log that writes whether debug is set or not
logAlways(out, debug, args) == out \o args

\* this.log(...) called once for each message of args, in order: nothing
\* unless options.debug, else console.log
log(out, debug, args) == IF ~debug THEN out ELSE out \o args

-----------------------------------------------------------------------------
(* textUtils.ts                                                            *)

\* the number of maximal runs of characters of cs in t
Runs(t, cs) ==
    Cardinality({i \in 1..Len(t) : t[i] \in cs /\ (i = 1 \/ t[i - 1] \notin cs)})

\* str.split(/\s+/).length
wordCount(t) == Runs(t, WS) + 1

\* String.prototype.toLowerCase on the Latin capitals
ToLower(t) == [i \in 1..Len(t) |-> IF t[i] >= 65 /\ t[i] <= 90 THEN t[i] + 32 ELSE t[i]]

\* \w : [A-Za-z0-9_]
IsWordChar(c) ==
    \/ (c >= 48 /\ c <= 57)
    \/ (c >= 65 /\ c <= 90)
    \/ c = 95
    \/ (c >= 97 /\ c <= 122)

\* str.split(regexes.tokenize).filter(Boolean) with tokenize = /\W+/g:
\* the maximal runs of word characters, in order
RECURSIVE Tokens(_)
Tokens(t) ==
    IF t = <<>> THEN <<>>
    ELSE IF ~IsWordChar(Head(t)) THEN Tokens(Tail(t))
    ELSE LET n == IF \E i \in 1..Len(t) : ~IsWordChar(t[i])
                  THEN (CHOOSE i \in 1..Len(t) :
                            /\ ~IsWordChar(t[i])
                            /\ \A j \in 1..(i - 1) : IsWordChar(t[j])) - 1
                  ELSE Len(t)
         IN  <<SubSeq(t, 1, n)>> \o Tokens(SubSeq(t, n + 1, Len(t)))

\* tokens.join(' ').length
JoinedLength(ts) ==
    IF ts = <<>> THEN 0
    ELSE SumSeq([i \in 1..Len(ts) |-> Len(ts[i])]) + Len(ts) - 1

\* textSimilarity(textA, textB) as an exact fraction
textSimilarity(textA, textB) ==
    LET tokensA == Tokens(ToLower(textA))
        tokensB == Tokens(ToLower(textB))
        uniqTokensB == SelectSeq(tokensB, LAMBDA tk : ~InSeq(tk, tokensA))
    IN  IF tokensA = <<>> \/ tokensB = <<>> THEN <<0, 1>>
        ELSE Frac(JoinedLength(tokensB) - JoinedLength(uniqTokensB),
                  JoinedLength(tokensB))

\* getInnerText($element, normalizeSpaces)
getInnerText(d, n, normalizeSpaces) ==
    LET textContent == Trim(TextOf(d, n))
    IN  IF normalizeSpaces THEN NormalizeSpaces(textContent) ELSE textContent

\* regexes.hashUrl /^#.+/ on the href values used
hashUrl(v) == v \in {"#top"}

\* getLinkDensity($, $element) as an exact fraction
getLinkDensity(d, n) ==
    LET textLength == Len(getInnerText(d, n, TRUE))
        links == Find(d, n, {"a"})
        \* ten times the coefficient: 3 for a hash link, 10 otherwise
        coefficient(a) ==
            IF HasAttr(d, a, "href") /\ Attr(d, a, "href") # "" /\ hashUrl(Attr(d, a, "href"))
            THEN 3 ELSE 10
        linkLength ==
            SumSeq([i \in 1..Len(links) |->
                       Len(getInnerText(d, links[i], TRUE)) * coefficient(links[i])])
    IN  IF textLength = 0 THEN <<0, 1>> ELSE Frac(linkLength, 10 * textLength)

\* isWhitespace($element)
isWhitespace(d, n) == Len(getInnerText(d, n, TRUE)) = 0 \/ d[n].tag = "br"

\* isElementWithoutContent($element)
isElementWithoutContent(d, n) ==
    LET hasNoText == Len(Trim(TextOf(d, n))) = 0
        children == Len(ElemKids(d, n))
        brCount == Len(Find(d, n, {"br"}))
        hrCount == Len(Find(d, n, {"hr"}))
    IN  hasNoText /\ (children = 0 \/ children = brCount + hrCount)

\* isValidByline(byline)
isValidByline(t) == Len(Trim(t)) > 0 /\ Len(Trim(t)) < 100

-----------------------------------------------------------------------------
(* regexes.ts on the class, id and attribute words the documents use       *)

ClassWords == {"content", "story", "promo", "sidebar", "x", "author", "share",
               "page", "inner", "readability-page-1"}

unlikelyCandidates(w) == w \in {"sidebar"}

okMaybeItsACandidate(w) == w \in {"content"}

positive(w) == w \in {"content", "story", "page", "readability-page-1"}

negative(w) == w \in {"promo", "sidebar", "share"}

byline(w) == w \in {"author"}

shareElements(w) == w \in {"share"}

\* the words of matchString = className + ' ' + id: a pattern matches the
\* string when it matches one of them
MatchString(d, n) ==
    {a[2] : a \in {b \in d[n].attribs : b[1] \in {"class", "id"}}}

-----------------------------------------------------------------------------
(* Metadata: getArticleTitle, getJSONLD, getArticleMetadata                *)

\* | - \ / > and the right guillemet
TitleSeparators == {124, 45, 92, 47, 62, 187}

\* \ / > and the right guillemet
HierarchicalSeparators == {92, 47, 62, 187}

\* / [seps] /.test(t)
HasSpacedSeparator(t, seps) ==
    \E i \in 1..(Len(t) - 2) : t[i] = 32 /\ t[i + 1] \in seps /\ t[i + 2] = 32

\* str.indexOf / lastIndexOf of one character, as JavaScript's 0-based index, -1 if absent
IndexOfChar(t, c) ==
    IF \E i \in 1..Len(t) : t[i] = c
    THEN (CHOOSE i \in 1..Len(t) : t[i] = c /\ \A j \in 1..(i - 1) : t[j] # c) - 1
    ELSE -1

LastIndexOfChar(t, c) ==
    IF \E i \in 1..Len(t) : t[i] = c
    THEN (CHOOSE i \in 1..Len(t) : t[i] = c /\ \A j \in (i + 1)..Len(t) : t[j] # c) - 1
    ELSE -1

\* origTitle.replace(/(.*)[|\-\\/>»] .*/gi, '$1'): the text before the last
\* separator that a space follows
BeforeLastSeparator(t) ==
    LET at == {i \in 1..(Len(t) - 1) : t[i] \in TitleSeparators /\ t[i + 1] = 32}
    IN  IF at = {} THEN t
        ELSE SubSeq(t, 1, (CHOOSE i \in at : \A j \in at : j <= i) - 1)

\* origTitle.replace(/[^|\-\\/>»]*[|\-\\/>»](.*)/gi, '$1'): the text after the first separator
AfterFirstSeparator(t) ==
    LET at == {i \in 1..Len(t) : t[i] \in TitleSeparators}
    IN  IF at = {} THEN t
        ELSE SubSeq(t, (CHOOSE i \in at : \A j \in at : i <= j) + 1, Len(t))

\* origTitle.replace(/[|\-\\/>»]+/g, '')
WithoutSeparators(t) == SelectSeq(t, LAMBDA c : c \notin TitleSeparators)

getArticleTitle(d) ==
    LET titles == Find(d, Root, {"title"})
        origTitle == NormalizeSpaces(Trim(TextOfSeq(d, titles)))
        hadSeparator == HasSpacedSeparator(origTitle, TitleSeparators)
        hadColon == \E i \in 1..(Len(origTitle) - 1) : origTitle[i] = 58 /\ origTitle[i + 1] = 32
        titleHadHierarchicalSeparators ==
            hadSeparator /\ HasSpacedSeparator(origTitle, HierarchicalSeparators)
        headingMatch ==
            \E h \in Range(Find(d, Root, {"h1", "h2"})) : Trim(TextOf(d, h)) = origTitle
        afterLastColon == SubSeq(origTitle, LastIndexOfChar(origTitle, 58) + 2, Len(origTitle))
        afterFirstColon == SubSeq(origTitle, IndexOfChar(origTitle, 58) + 2, Len(origTitle))
        beforeFirstColon == SubSeq(origTitle, 1, IndexOfChar(origTitle, 58))
        hOnes == Find(d, Root, {"h1"})
        curTitle ==
            IF hadSeparator
            THEN IF wordCount(BeforeLastSeparator(origTitle)) < 3
                 THEN AfterFirstSeparator(origTitle)
                 ELSE BeforeLastSeparator(origTitle)
            ELSE IF hadColon
            THEN IF headingMatch THEN origTitle
                 ELSE IF wordCount(afterLastColon) < 3 THEN afterFirstColon
                 ELSE IF wordCount(beforeFirstColon) > 5 THEN origTitle
                 ELSE afterLastColon
            ELSE IF (Len(origTitle) > 150 \/ Len(origTitle) < 15) /\ Len(hOnes) = 1
            THEN getInnerText(d, hOnes[1], TRUE)
            ELSE origTitle
        normalized == NormalizeSpaces(Trim(curTitle))
        curTitleWordCount == wordCount(normalized)
    IN  IF /\ curTitleWordCount <= 4
           /\ (\/ ~titleHadHierarchicalSeparators
               \/ curTitleWordCount # wordCount(WithoutSeparators(origTitle)) - 1)
        THEN origTitle
        ELSE normalized

\* 3/4, the similarity above which two titles count as the same
ThreeQuarters == <<3, 4>>

\* getJSONLD(): the fields of the last script that parses and is a schema.org article
JsonTitle(d, j) ==
    IF j.name # <<>> /\ j.headline # <<>> /\ j.name # j.headline
    THEN LET title == getArticleTitle(d)
             nameMatches == FLess(ThreeQuarters, textSimilarity(j.name, title))
             headlineMatches == FLess(ThreeQuarters, textSimilarity(j.headline, title))
         IN  IF headlineMatches /\ ~nameMatches THEN j.headline ELSE j.name
    ELSE IF j.name # <<>> THEN Trim(j.name)
    ELSE IF j.headline # <<>> THEN Trim(j.headline)
    ELSE Null

NoJsonLd ==
    [title |-> Null, byline |-> Null, excerpt |-> Null, siteName |-> Null,
     datePublished |-> Null]

RECURSIVE JsonLdOf(_, _)
JsonLdOf(d, scripts) ==
    IF scripts = <<>> THEN NoJsonLd
    ELSE LET j == JsonParse(TextOf(d, scripts[Len(scripts)]))
         IN  IF j.parses /\ j.context /\ j.type
             THEN [title |-> JsonTitle(d, j), byline |-> Trim(j.author),
                   excerpt |-> Trim(j.description), siteName |-> Trim(j.publisher),
                   datePublished |-> Trim(j.datePublished)]
             ELSE JsonLdOf(d, SubSeq(scripts, 1, Len(scripts) - 1))

getJSONLD(d) ==
    JsonLdOf(d, SelectSeq(Find(d, Root, {"script"}),
                          LAMBDA n : Attr(d, n, "type") = "application/ld+json"))

\* the messages of the catch of getJSONLD: one for each script JSON.parse rejects
JsonLdErrors(d, o) ==
    LET scripts == SelectSeq(Find(d, Root, {"script"}),
                             LAMBDA n : Attr(d, n, "type") = "application/ld+json")
        failed == SelectSeq(scripts, LAMBDA n : ~JsonParse(TextOf(d, n)).parses)
    IN  IF o.disableJSONLD THEN <<>> ELSE [i \in 1..Len(failed) |-> "SyntaxError"]

\* the key under which getArticleMetadata stores the content of a <meta>, from its
\* property (propertyPattern) or else its name (namePattern); Absent when neither matches
PropertyKeys ==
    {"og:title", "og:description", "og:site_name", "og:author",
     "article:published_time", "dc:title", "dc:description", "dc:creator",
     "dcterm:title", "twitter:title", "twitter:description"}

NameKeys ==
    {"title", "description", "author", "dc:title", "dc:creator", "dc:description",
     "dcterm:title", "dcterm:creator", "dcterm:description", "og:title",
     "og:description", "twitter:title", "twitter:description", "parsely-title",
     "parsely-author", "parsely-pub-date", "weibo:article:title",
     "weibo:webpage:title", "weibo:article:description",
     "weibo:webpage:description"}

MetaKey(d, m) ==
    IF HasAttr(d, m, "property") /\ Attr(d, m, "property") \in PropertyKeys
    THEN Attr(d, m, "property")
    ELSE IF HasAttr(d, m, "name") /\ Attr(d, m, "name") \in NameKeys
    THEN Attr(d, m, "name")
    ELSE Absent

\* values[key]: the trimmed content of the last <meta> stored under key, Null if none
MetaValue(d, key) ==
    LET ms == SelectSeq(Find(d, Root, {"meta"}),
                        LAMBDA m : /\ HasAttr(d, m, "content")
                                   /\ AttrChars(Attr(d, m, "content")) # <<>>
                                   /\ MetaKey(d, m) = key)
    IN  IF ms = <<>> THEN Null ELSE Trim(AttrChars(Attr(d, ms[Len(ms)], "content")))

\* a || b || ... : the first value that is not falsy
RECURSIVE FirstOf(_)
FirstOf(vs) == IF vs = <<>> THEN Null ELSE IF Head(vs) # Null THEN Head(vs) ELSE FirstOf(Tail(vs))

\* unescapeHtmlEntities (src/unescapeHtmlEntities.ts), for the named references:
\* &quot; &amp; &apos; &lt; &gt; become " & ' < >
NamedEntities ==
    <<[name |-> <<113, 117, 111, 116>>, char |-> 34],
      [name |-> <<97, 109, 112>>, char |-> 38],
      [name |-> <<97, 112, 111, 115>>, char |-> 39],
      [name |-> <<108, 116>>, char |-> 60],
      [name |-> <<103, 116>>, char |-> 62]>>

RECURSIVE UnescapeNamed(_)
UnescapeNamed(t) ==
    IF t = <<>> THEN <<>>
    ELSE LET hits == {i \in 1..Len(NamedEntities) :
                         LET nm == NamedEntities[i].name
                         IN  /\ Head(t) = 38
                             /\ Len(t) >= Len(nm) + 2
                             /\ SubSeq(t, 2, Len(nm) + 1) = nm
                             /\ t[Len(nm) + 2] = 59}
         IN  IF hits = {} THEN <<Head(t)>> \o UnescapeNamed(Tail(t))
             ELSE LET e == NamedEntities[CHOOSE i \in hits : TRUE]
                  IN  <<e.char>> \o UnescapeNamed(SubSeq(t, Len(e.name) + 3, Len(t)))

\* NaN
NaN == -1

\* the value of a character as a digit: 0-9, then a-z and A-Z from ten on
DigitValue(c) ==
    IF c >= 48 /\ c <= 57 THEN c - 48
    ELSE IF c >= 97 /\ c <= 122 THEN c - 87
    ELSE IF c >= 65 /\ c <= 90 THEN c - 55
    ELSE 36

\* parseInt(s, radix): the number the longest prefix of digits of the radix
\* writes, NaN when s does not start with such a digit
RECURSIVE parseInt(_, _)
parseInt(s, radix) ==
    IF s = <<>> \/ DigitValue(s[1]) >= radix THEN NaN
    ELSE IF \E i \in 1..Len(s) : DigitValue(s[i]) >= radix
    THEN parseInt(SubSeq(s, 1, (CHOOSE i \in 1..Len(s) :
                                    /\ DigitValue(s[i]) >= radix
                                    /\ \A j \in 1..(i - 1) : DigitValue(s[j]) < radix) - 1),
                  radix)
    ELSE IF Len(s) = 1 THEN DigitValue(s[1])
    ELSE parseInt(SubSeq(s, 1, Len(s) - 1), radix) * radix + DigitValue(s[Len(s)])

\* String.fromCharCode(num): the code unit num modulo 2^16, 0 for NaN
fromCharCode(num) == IF num = NaN THEN 0 ELSE num % 65536

\* the second replace of unescapeHtmlEntities, with
\* /&#(?:x([0-9a-z]{1,4})|([0-9]{1,4}));/gi : a reference of one to four
\* characters becomes String.fromCharCode(parseInt(...)), anything else stays
RECURSIVE UnescapeNumeric(_)
UnescapeNumeric(t) ==
    IF t = <<>> THEN <<>>
    ELSE LET starts == Len(t) >= 4 /\ t[1] = 38 /\ t[2] = 35
             hex == IF starts /\ t[3] \in {120, 88}
                    THEN {k \in 1..4 :
                             /\ Len(t) >= 4 + k
                             /\ \A j \in 1..k : DigitValue(t[3 + j]) < 36
                             /\ t[4 + k] = 59}
                    ELSE {}
             numStr == IF starts
                       THEN {k \in 1..4 :
                                /\ Len(t) >= 3 + k
                                /\ \A j \in 1..k : t[2 + j] >= 48 /\ t[2 + j] <= 57
                                /\ t[3 + k] = 59}
                       ELSE {}
         IN  IF hex # {}
             THEN LET k == CHOOSE k \in hex : TRUE
                  IN  <<fromCharCode(parseInt(SubSeq(t, 4, 3 + k), 16))>>
                      \o UnescapeNumeric(SubSeq(t, 5 + k, Len(t)))
             ELSE IF numStr # {}
             THEN LET k == CHOOSE k \in numStr : TRUE
                  IN  <<fromCharCode(parseInt(SubSeq(t, 3, 2 + k), 10))>>
                      \o UnescapeNumeric(SubSeq(t, 4 + k, Len(t)))
             ELSE <<Head(t)>> \o UnescapeNumeric(Tail(t))

\* unescapeHtmlEntities(str): a null or empty str is returned as it is
unescapeHtmlEntities(str) ==
    IF str = Null THEN str ELSE UnescapeNumeric(UnescapeNamed(str))

\* a getArticleMetadata that asks the bare description before og:description
getArticleMetadataBareFirst(d, jsonld) ==
    LET v(key) == MetaValue(d, key)
        title == FirstOf(<<jsonld.title, v("dc:title"), v("dcterm:title"), v("og:title"),
                           v("weibo:article:title"), v("weibo:webpage:title"), v("title"),
                           v("twitter:title"), v("parsely-title")>>)
    IN  [title |-> unescapeHtmlEntities(IF title = Null THEN getArticleTitle(d) ELSE title),
         byline |-> unescapeHtmlEntities(FirstOf(<<jsonld.byline, v("dc:creator"),
                        v("dcterm:creator"), v("author"), v("parsely-author")>>)),
         excerpt |-> unescapeHtmlEntities(FirstOf(<<jsonld.excerpt, v("dc:description"),
                        v("dcterm:description"), v("description"), v("og:description"),
                        v("weibo:article:description"), v("weibo:webpage:description"),
                        v("twitter:description")>>)),
         siteName |-> unescapeHtmlEntities(FirstOf(<<jsonld.siteName, v("og:site_name")>>)),
         publishedTime |-> unescapeHtmlEntities(FirstOf(<<jsonld.datePublished,
                        v("article:published_time"), v("parsely-pub-date")>>))]

getArticleMetadata(d, jsonld) ==
    LET v(key) == MetaValue(d, key)
        title == FirstOf(<<jsonld.title, v("dc:title"), v("dcterm:title"), v("og:title"),
                           v("weibo:article:title"), v("weibo:webpage:title"), v("title"),
                           v("twitter:title"), v("parsely-title")>>)
    IN  [title |-> unescapeHtmlEntities(IF title = Null THEN getArticleTitle(d) ELSE title),
         byline |-> unescapeHtmlEntities(FirstOf(<<jsonld.byline, v("dc:creator"),
                        v("dcterm:creator"), v("author"), v("parsely-author")>>)),
         excerpt |-> unescapeHtmlEntities(FirstOf(<<jsonld.excerpt, v("dc:description"),
                        v("dcterm:description"), v("og:description"),
                        v("weibo:article:description"), v("weibo:webpage:description"),
                        v("description"), v("twitter:description")>>)),
         siteName |-> unescapeHtmlEntities(FirstOf(<<jsonld.siteName, v("og:site_name")>>)),
         publishedTime |-> unescapeHtmlEntities(FirstOf(<<jsonld.datePublished,
                        v("article:published_time"), v("parsely-pub-date")>>))]

-----------------------------------------------------------------------------
(* dom.ts, isPhrasingContent.ts, hasAncestorTag / getNodeAncestors, utils  *)

\* the while loop of getNextNode: the next element sibling of the nearest
\* ancestor-or-self of p that has one
RECURSIVE UpNext(_, _)
UpNext(d, p) ==
    IF p = 0 THEN 0
    ELSE IF NextElem(d, p) # 0 THEN NextElem(d, p)
    ELSE UpNext(d, CheerioParent(d, p))

\* a getNextNode whose last step returns the parent itself, not the next
\* sibling of an ancestor: the traversal then comes back to nodes it has seen
getNextNodeRevisiting(d, n, ignoreSelfAndKids) ==
    IF ~ignoreSelfAndKids /\ ElemKids(d, n) # <<>> THEN ElemKids(d, n)[1]
    ELSE IF NextElem(d, n) # 0 THEN NextElem(d, n)
    ELSE CheerioParent(d, n)

\* getNextNode($node, ignoreSelfAndKids), 0 for null
\* the flag that tells the node is going away is not looked at
getNextNodeIntoKids(d, n, ignoreSelfAndKids) ==
    IF ElemKids(d, n) # <<>> THEN ElemKids(d, n)[1]
    ELSE IF NextElem(d, n) # 0 THEN NextElem(d, n)
    ELSE UpNext(d, CheerioParent(d, n))

getNextNode(d, n, ignoreSelfAndKids) ==
    IF ~ignoreSelfAndKids /\ ElemKids(d, n) # <<>> THEN ElemKids(d, n)[1]
    ELSE IF NextElem(d, n) # 0 THEN NextElem(d, n)
    ELSE UpNext(d, CheerioParent(d, n))

\* regexes.whitespace /^\s*$/
whitespace(t) == IsBlank(t)

\* regexes.hasContent /\S$/ : the text ends with a character that is not white space
hasContent(t) == t # <<>> /\ t[Len(t)] \notin WS

\* nextNode(node): the first node from `node` on that is not a blank text
RECURSIVE nextNode(_, _)
nextNode(d, n) ==
    IF n # 0 /\ IsText(d, n) /\ whitespace(d[n].data)
    THEN nextNode(d, NextSibling(d, n))
    ELSE n

\* removeNodes($coll) with the default filter alwaysTrue: the nodes of the
\* collection are removed, from the last to the first
RECURSIVE removeNodes(_, _)
removeNodes(d, coll) ==
    IF coll = <<>> THEN d
    ELSE removeNodes(Detach(d, coll[Len(coll)]), SubSeq(coll, 1, Len(coll) - 1))

\* replaceNodeTags(elements, tag)
replaceNodeTags(d, elements, tag) ==
    [n \in 1..Len(d) |-> IF InSeq(n, elements) THEN [d[n] EXCEPT !.tag = tag] ELSE d[n]]

PHRASING_ELEMS ==
    {"abbr", "audio", "b", "bdo", "br", "button", "cite", "code", "data",
     "datalist", "dfn", "em", "embed", "i", "img", "input", "kbd", "label",
     "mark", "math", "meter", "noscript", "object", "output", "progress", "q",
     "ruby", "samp", "script", "select", "small", "span", "strong", "sub",
     "sup", "textarea", "time", "var", "wbr"}

PARENT_PHRASING_ELEMS == {"a", "del", "ins"}

RECURSIVE isPhrasingContent(_, _)
isPhrasingContent(d, n) ==
    IF IsText(d, n) THEN TRUE
    ELSE IF ~IsElem(d, n) THEN FALSE
    ELSE IF d[n].tag \in PHRASING_ELEMS THEN TRUE
    ELSE /\ d[n].tag \in PARENT_PHRASING_ELEMS
         /\ \A i \in 1..Len(d[n].kids) : isPhrasingContent(d, d[n].kids[i])

\* hasAncestorTag(node, tagName, maxDepth, filterFn): the loop gives up once
\* depth > maxDepth, that is after it has looked at maxDepth + 1 ancestors.
\* filterFn is given as the set of the nodes it accepts.
hasAncestorTag(d, n, tagName, maxDepth, filterFn) ==
    LET as == Ancestors(d, n)
        looked == IF maxDepth > 0 THEN Min(Len(as), maxDepth + 1) ELSE Len(as)
    IN  \E i \in 1..looked : d[as[i]].tag = tagName /\ as[i] \in filterFn

\* getNodeAncestors(node, maxDepth): the parent chain, nearest first, the document included
getNodeAncestors(d, n, maxDepth) ==
    LET as == Ancestors(d, n)
    IN  IF maxDepth # 0 THEN SubSeq(as, 1, Min(Len(as), maxDepth)) ELSE as

DIV_TO_P_ELEMS == {"blockquote", "dl", "div", "img", "ol", "p", "pre", "table", "ul"}

TAGS_TO_SIMPLIFY == {"div", "section"}

RECURSIVE hasChildBlockElement(_, _)
hasChildBlockElement(d, n) ==
    \E i \in 1..Len(d[n].kids) :
        LET k == d[n].kids[i]
        IN  IsElem(d, k) /\ (d[k].tag \in DIV_TO_P_ELEMS \/ hasChildBlockElement(d, k))

\* $node.prop('style') on the style values the documents use
StyleHides(v) == v \in {"display:none", "visibility:hidden"}

\* isProbablyVisible if $node.attr('hidden') were the attribute's value, which
\* is falsy for a bare hidden
isProbablyVisibleByValue(d, n) ==
    LET ariaHidden == Attr(d, n, "aria-hidden")
        isFallbackImage == Attr(d, n, "class") = "fallback-image"
    IN  ~ \/ Attr(d, n, "aria-modal") = "true"
          \/ Attr(d, n, "role") = "dialog"
          \/ (HasAttr(d, n, "hidden") /\ Attr(d, n, "hidden") # "")
          \/ (HasAttr(d, n, "style") /\ StyleHides(Attr(d, n, "style")))
          \/ (ariaHidden = "true" /\ ~isFallbackImage)

\* $node.attr('hidden') of a document loaded as HTML is the string 'hidden'
\* whenever the element has the attribute, whatever its value: hidden is one of
\* the boolean attributes of attr()
isProbablyVisible(d, n) ==
    LET ariaHidden == Attr(d, n, "aria-hidden")
        isFallbackImage == Attr(d, n, "class") = "fallback-image"
    IN  ~ \/ Attr(d, n, "aria-modal") = "true"
          \/ Attr(d, n, "role") = "dialog"
          \/ HasAttr(d, n, "hidden")
          \/ (HasAttr(d, n, "style") /\ StyleHides(Attr(d, n, "style")))
          \/ (ariaHidden = "true" /\ ~isFallbackImage)

hasSingleTagInsideElement(d, n, tag) ==
    LET elementChildren == ElemKids(d, n)
    IN  /\ Len(elementChildren) = 1
        /\ d[elementChildren[1]].tag = tag
        /\ ~\E i \in 1..Len(d[n].kids) :
               IsText(d, d[n].kids[i]) /\ hasContent(d[d[n].kids[i]].data)

\* cleanStyles(el): removes the presentational attributes from el and under it;
\* returns at once on an <svg>
PRESENTATIONAL_ATTRIBUTES ==
    {"align", "background", "bgcolor", "border", "cellpadding", "cellspacing",
     "frame", "hspace", "rules", "style", "valign", "vspace"}

DEPRECATED_SIZE_ATTRIBUTE_ELEMS == {"table", "th", "td", "hr", "pre"}

\* the elements cleanStyles(el) visits: el and its element descendants that no <svg> shields
RECURSIVE StyledBy(_, _)
StyledBy(d, el) ==
    IF d[el].tag = "svg" THEN {}
    ELSE {el} \cup UNION {StyledBy(d, k) : k \in Range(ElemKids(d, el))}

cleanStyles(d, el) ==
    LET visited == StyledBy(d, el)
    IN  [n \in 1..Len(d) |->
            IF n \in visited
            THEN [d[n] EXCEPT !.attribs =
                     {a \in @ : /\ a[1] \notin PRESENTATIONAL_ATTRIBUTES
                                /\ (a[1] \in {"width", "height"}
                                       => d[n].tag \in DEPRECATED_SIZE_ATTRIBUTE_ELEMS)}]
            ELSE d[n]]

-----------------------------------------------------------------------------
(* parse(): the size check, the metadata, the preparation of the document  *)

\* the size check with >= in the place of >
TooManyElementsInclusive(numTags, maxElemsToParse) ==
    maxElemsToParse > 0 /\ numTags >= maxElemsToParse

\* this.options.maxElemsToParse > 0 and numTags > this.options.maxElemsToParse
TooManyElements(numTags, maxElemsToParse) ==
    maxElemsToParse > 0 /\ numTags > maxElemsToParse

ParseCheckSize ==
    /\ pc = "parse"
    /\ LET numTags == Len(FindAll(dom, Root))
       IN  IF TooManyElements(numTags, opts.maxElemsToParse)
           THEN /\ thrown' = [message |-> "Aborting parsing document; N elements found",
                              numTags |-> numTags]
                /\ pc' = "thrown"
           ELSE /\ pc' = "metadata"
                /\ UNCHANGED thrown
    /\ UNCHANGED <<dom, opts, flags, attempts, articleTitle, articleByline,
                   metadata, loc, pageCache, result>>
    /\ UNCHANGED <<console, earlier>>

GetMetadata ==
    /\ pc = "metadata"
    /\ LET jsonLd == IF opts.disableJSONLD THEN NoJsonLd ELSE getJSONLD(dom)
           m == getArticleMetadata(dom, jsonLd)
       IN  /\ metadata' = m
           /\ articleTitle' = m.title
    /\ pc' = IF opts.extraction THEN "prepDocument" ELSE "finish"
    /\ UNCHANGED <<dom, opts, flags, attempts, articleByline, loc, pageCache,
                   thrown, result>>
    /\ console' = log(console, opts.debug, JsonLdErrors(dom, opts))
    /\ UNCHANGED earlier

\* removeComments(this.$, this.$.root()[0]): removeComments takes one parameter,
\* so its node is the cheerio function, which has neither type 'tag' / 'root'
\* nor a comment type: the call changes nothing.  Then the scripts and the styles go.
PrepDocument ==
    /\ pc = "prepDocument"
    /\ LET d1 == removeNodes(dom, Find(dom, Root, {"script", "noscript"}))
           d2 == removeNodes(d1, Find(d1, Root, {"style"}))
       IN  /\ dom' = d2
           /\ loc' = [loc EXCEPT !.brs = Find(d2, Root, {"br"})]
    /\ pc' = "replaceBrs"
    /\ UNCHANGED <<opts, flags, attempts, articleTitle, articleByline, metadata,
                   pageCache, thrown, result>>
    /\ UNCHANGED <<console, earlier>>

\* replaceBrs: the first loop, which removes the <br>s that follow `br`
RECURSIVE RemoveBrChain(_, _, _)
RemoveBrChain(d, node, replaced) ==
    LET next == nextNode(d, node)
    IN  IF next # 0 /\ d[next].tag = "br"
        THEN RemoveBrChain(Detach(d, next), NextSibling(d, next), TRUE)
        ELSE [d |-> d, replaced |-> replaced]

\* replaceBrs: the second loop, which moves the phrasing siblings that follow
\* the new <p> into it, up to the next <br> chain
RECURSIVE GatherSiblings(_, _, _)
GatherSiblings(d, p, next) ==
    IF next = 0 THEN d
    ELSE IF /\ d[next].tag = "br"
            /\ LET nextElem == nextNode(d, NextSibling(d, next))
               IN  nextElem # 0 /\ d[nextElem].tag = "br"
    THEN d
    ELSE IF ~isPhrasingContent(d, next) THEN d
    ELSE GatherSiblings(AppendChild(d, p, next), p, NextSibling(d, next))

\* replaceBrs without the loop that removes the last children of the <p>
TrimLastChildrenNone(d, p) == d

\* replaceBrs: while (p.lastChild && isWhitespace($(p.lastChild))) remove it
RECURSIVE TrimLastChildren(_, _)
TrimLastChildren(d, p) ==
    LET ks == d[p].kids
    IN  IF ks # <<>> /\ isWhitespace(d, ks[Len(ks)])
        THEN TrimLastChildren(Detach(d, ks[Len(ks)]), p)
        ELSE d

\* the body of the each() of replaceBrs for one <br>
replaceBr(d, br) ==
    LET chain == RemoveBrChain(d, NextSibling(d, br), FALSE)
        d1 == NewElem(chain.d, "p")
        p  == Created(chain.d)
        d2 == ReplaceWith(d1, br, p)
        d3 == GatherSiblings(d2, p, NextSibling(d2, p))
        d4 == TrimLastChildren(d3, p)
        parentNode == Parent(d4, p)
    IN  IF ~chain.replaced THEN chain.d
        ELSE IF parentNode # 0 /\ d4[parentNode].tag = "p"
        THEN [d4 EXCEPT ![parentNode].tag = "div"]
        ELSE d4

\* one iteration of $('br').each(...) in replaceBrs
ReplaceBrsStep ==
    /\ pc = "replaceBrs"
    /\ loc.brs # <<>>
    /\ dom' = replaceBr(dom, Head(loc.brs))
    /\ loc' = [loc EXCEPT !.brs = Tail(@)]
    /\ UNCHANGED <<opts, pc, flags, attempts, articleTitle, articleByline,
                   metadata, pageCache, thrown, result>>
    /\ UNCHANGED <<console, earlier>>

\* node.children as a tree literal: what $(n).html() serialises
RECURSIVE Literal(_, _)
Literal(d, n) ==
    [t |-> d[n].tag, a |-> d[n].attribs, x |-> d[n].data,
     k |-> [i \in 1..Len(d[n].kids) |-> Literal(d, d[n].kids[i])]]

\* $('body')[0]
Body(d) == Find(d, Root, {"body"})[1]

\* $(n).html(html): the children of n are dropped and the parsed html takes their place
SetHtml(d, n, html) ==
    LET fresh == Arena(html, Len(d), 0)
        emptied == [i \in 1..Len(d) |->
                       IF d[i].up = n THEN [d[i] EXCEPT !.up = 0] ELSE d[i]]
        parsed == [i \in 1..(Len(fresh) - 1) |->
                      IF fresh[i + 1].up = Len(d) THEN [fresh[i + 1] EXCEPT !.up = n]
                      ELSE fresh[i + 1]]
    IN  [emptied EXCEPT ![n].kids = fresh[1].kids] \o parsed

\* the end of replaceBrs, the <font> elements renamed to <span>, and the start
\* of grabArticle(): pageCacheHtml = $page.html()
StartGrabArticle ==
    /\ pc = "replaceBrs"
    /\ loc.brs = <<>>
    /\ LET d1 == replaceNodeTags(dom, Find(dom, Root, {"font"}), "span")
       IN  /\ dom' = d1
           /\ pageCache' = Literal(d1, Body(d1))
    /\ pc' = "passStart"
    /\ UNCHANGED <<opts, flags, attempts, articleTitle, articleByline, metadata,
                   loc, thrown, result>>
    /\ console' = log(console, opts.debug, <<"**** grabArticle ****">>)
    /\ UNCHANGED earlier

-----------------------------------------------------------------------------
(* grabArticle(): the first loop, which preps the nodes                    *)

DEFAULT_TAGS_TO_SCORE == {"section", "h2", "h3", "h4", "h5", "h6", "p", "td", "pre"}

UNLIKELY_ROLES ==
    {"menu", "menubar", "complementary", "navigation", "alert", "alertdialog", "dialog"}

EMPTY_TAGS == {"div", "section", "header", "h1", "h2", "h3", "h4", "h5", "h6"}

ALTER_TO_DIV_EXCEPTIONS == {"div", "article", "section", "p"}

flagIsActive(fl, flag) == flag \in fl

removeFlag(fl, flag) == fl \ {flag}

\* checkByline($node, matchString) without its assignment
checkByline(d, n, curByline) ==
    /\ curByline = Null
    /\ \/ Attr(d, n, "rel") = "author"
       \/ Attr(d, n, "itemprop") = "author"
       \/ \E w \in MatchString(d, n) : byline(w)
    /\ isValidByline(TextOf(d, n))

headerDuplicatesTitle(d, n, title) ==
    /\ d[n].tag \in {"h1", "h2"}
    /\ title # Null
    /\ FLess(ThreeQuarters, textSimilarity(title, getInnerText(d, n, FALSE)))

\* the test of the `Remove unlikely candidates` branch
IsUnlikelyCandidate(d, n) ==
    /\ \E w \in MatchString(d, n) : unlikelyCandidates(w)
    /\ ~\E w \in MatchString(d, n) : okMaybeItsACandidate(w)
    /\ ~hasAncestorTag(d, n, "table", 3, Nodes(d))
    /\ ~hasAncestorTag(d, n, "code", 3, Nodes(d))
    /\ d[n].tag # "body"
    /\ d[n].tag # "a"

\* regexes.commas: the comma of Latin and its variants in other scripts
commas == {44, 1548, 65104, 65040, 65041, 11841, 11828, 11826, 65292}

\* the messages one iteration of the first loop hands to this.log
WalkMessages(d, node, curByline, shouldRemoveTitleHeader, title, fl) ==
    LET evaluating == IF shouldRemoveTitleHeader /\ d[node].tag \in {"h1", "h2"}
                      THEN <<"Evaluating similarity of header:">> ELSE <<>>
        stripUnlikelyCandidates == flagIsActive(fl, FLAG_STRIP_UNLIKELYS)
    IN  IF ~isProbablyVisible(d, node) THEN <<"Removing hidden node">>
        ELSE IF checkByline(d, node, curByline) THEN <<"Removing byline">>
        ELSE IF shouldRemoveTitleHeader /\ headerDuplicatesTitle(d, node, title)
        THEN evaluating \o <<"Removing header">>
        ELSE IF stripUnlikelyCandidates /\ IsUnlikelyCandidate(d, node)
        THEN evaluating \o <<"Removing unlikely candidate">>
        ELSE IF stripUnlikelyCandidates /\ Attr(d, node, "role") \in UNLIKELY_ROLES
        THEN evaluating \o <<"Removing content with role">>
        ELSE IF d[node].tag \in EMPTY_TAGS /\ isElementWithoutContent(d, node)
        THEN evaluating \o <<"Removing empty tag">>
        ELSE evaluating

\* the start of one pass of the while (true) of grabArticle
StartPass ==
    /\ pc = "passStart"
    /\ loc' = [loc EXCEPT !.elementsToScore = <<>>,
                          !.shouldRemoveTitleHeader = TRUE,
                          !.node = getNextNode(dom, Root, FALSE)]
    /\ pc' = "walk"
    /\ UNCHANGED <<dom, opts, flags, attempts, articleTitle, articleByline,
                   metadata, pageCache, thrown, result>>
    /\ console' = log(console, opts.debug, <<"Starting grabArticle loop">>)
    /\ UNCHANGED earlier

\* one iteration of while ($node?.length), up to the call of simplifyDivs
WalkNode ==
    /\ pc = "walk"
    /\ loc.node # 0
    /\ LET node == loc.node
           lang == IF dom[node].tag = "html"
                   THEN (IF HasAttr(dom, node, "lang") /\ Attr(dom, node, "lang") # ""
                         THEN Attr(dom, node, "lang") ELSE Null)
                   ELSE loc.articleLang
           isByline == checkByline(dom, node, articleByline)
           isTitle == loc.shouldRemoveTitleHeader
                      /\ headerDuplicatesTitle(dom, node, articleTitle)
           stripUnlikelyCandidates == flagIsActive(flags, FLAG_STRIP_UNLIKELYS)
           remove ==
               \/ ~isProbablyVisible(dom, node)
               \/ isByline
               \/ isTitle
               \/ (stripUnlikelyCandidates /\ IsUnlikelyCandidate(dom, node))
               \/ (stripUnlikelyCandidates /\ Attr(dom, node, "role") \in UNLIKELY_ROLES)
               \/ (dom[node].tag \in EMPTY_TAGS /\ isElementWithoutContent(dom, node))
           toScore == IF dom[node].tag \in DEFAULT_TAGS_TO_SCORE
                      THEN Append(loc.elementsToScore, node)
                      ELSE loc.elementsToScore
       IN  IF remove
           THEN /\ dom' = Detach(dom, node)
                /\ articleByline' =
                       IF isProbablyVisible(dom, node) /\ isByline
                       THEN getInnerText(dom, node, TRUE) ELSE articleByline
                /\ loc' = [loc EXCEPT
                             !.articleLang = lang,
                             !.shouldRemoveTitleHeader =
                                 IF isProbablyVisible(dom, node) /\ ~isByline /\ isTitle
                                 THEN FALSE ELSE @,
                             !.node = getNextNode(dom, node, TRUE)]
                /\ pc' = "walk"
           ELSE /\ UNCHANGED <<dom, articleByline>>
                /\ IF dom[node].tag = "div"
                   THEN /\ loc' = [loc EXCEPT !.articleLang = lang,
                                              !.elementsToScore = toScore,
                                              !.p = 0,
                                              !.childNode =
                                                  IF dom[node].kids = <<>> THEN 0
                                                  ELSE dom[node].kids[1]]
                        /\ pc' = "simplifyDivs"
                   ELSE /\ loc' = [loc EXCEPT !.articleLang = lang,
                                              !.elementsToScore = toScore,
                                              !.node = getNextNode(dom, node, FALSE)]
                        /\ pc' = "walk"
    /\ UNCHANGED <<opts, flags, attempts, articleTitle, metadata, pageCache,
                   thrown, result>>
    /\ console' = log(console, opts.debug, WalkMessages(dom, loc.node, articleByline, loc.shouldRemoveTitleHeader,
                                articleTitle, flags))
    /\ UNCHANGED earlier

\* one iteration of while (childNode) in simplifyDivs, opening a <p> at a
\* phrasing node whether it is white space or not
simplifyDivsIterationEager(d, p, childNode) ==
    LET nextSibling == NextSibling(d, childNode)
        created == Created(d)
    IN  IF isPhrasingContent(d, childNode)
        THEN IF p # 0
             THEN [d |-> AppendChild(d, p, childNode), p |-> p, childNode |-> nextSibling]
             ELSE [d |-> AppendChild(ReplaceWith(NewElem(d, "p"), childNode, created),
                                     created, childNode),
                   p |-> created, childNode |-> nextSibling]
        ELSE [d |-> d, p |-> 0, childNode |-> nextSibling]

\* one iteration of while (childNode) in simplifyDivs: the tree, $p and
\* childNode after it.  $p.last() is $p itself, so the inner while removes the
\* paragraph as long as it is white space, and does not end if it ever is: the
\* iteration then leaves childNode where it is.
simplifyDivsIteration(d, p, childNode) ==
    LET nextSibling == NextSibling(d, childNode)
        created == Created(d)
    IN  IF isPhrasingContent(d, childNode)
        THEN IF p # 0
             THEN [d |-> AppendChild(d, p, childNode), p |-> p, childNode |-> nextSibling]
             ELSE IF ~isWhitespace(d, childNode)
             THEN [d |-> AppendChild(ReplaceWith(NewElem(d, "p"), childNode, created),
                                     created, childNode),
                   p |-> created, childNode |-> nextSibling]
             ELSE [d |-> d, p |-> p, childNode |-> nextSibling]
        ELSE IF p # 0
             THEN IF isWhitespace(d, p)
                  THEN [d |-> Detach(d, p), p |-> p, childNode |-> childNode]
                  ELSE [d |-> d, p |-> 0, childNode |-> nextSibling]
             ELSE [d |-> d, p |-> p, childNode |-> nextSibling]

\* the iterations of simplifyDivs from childNode on
RECURSIVE simplifyDivsFrom(_, _, _)
simplifyDivsFrom(d, p, childNode) ==
    IF childNode = 0 THEN d
    ELSE LET it == simplifyDivsIteration(d, p, childNode)
         IN  simplifyDivsFrom(it.d, it.p, it.childNode)

\* simplifyDivs($, node): the tree when the call returns
simplifyDivs(d, node) ==
    simplifyDivsFrom(d, 0, IF d[node].kids = <<>> THEN 0 ELSE d[node].kids[1])

\* one iteration of while (childNode) in simplifyDivs
SimplifyDivsStep ==
    /\ pc = "simplifyDivs"
    /\ loc.childNode # 0
    /\ LET it == simplifyDivsIteration(dom, loc.p, loc.childNode)
       IN  /\ dom' = it.d
           /\ loc' = [loc EXCEPT !.childNode = it.childNode, !.p = it.p]
    /\ UNCHANGED <<opts, pc, flags, attempts, articleTitle, articleByline,
                   metadata, pageCache, thrown, result>>
    /\ UNCHANGED <<console, earlier>>

\* the rest of the iteration for a <div>, after simplifyDivs has returned
AfterSimplifyDivs ==
    /\ pc = "simplifyDivs"
    /\ loc.childNode = 0
    /\ LET node == loc.node
       IN  IF /\ hasSingleTagInsideElement(dom, node, "p")
              /\ FLess(getLinkDensity(dom, node), <<1, 4>>)
           THEN LET newNode == ElemKids(dom, node)[1]
                    d1 == ReplaceWith(dom, node, newNode)
                IN  /\ dom' = d1
                    /\ loc' = [loc EXCEPT
                                 !.elementsToScore = Append(@, newNode),
                                 !.node = getNextNode(d1, newNode, FALSE)]
           ELSE IF ~hasChildBlockElement(dom, node)
           THEN /\ dom' = [dom EXCEPT ![node].tag = "p"]
                /\ loc' = [loc EXCEPT
                             !.elementsToScore = Append(@, node),
                             !.node = getNextNode(dom, node, FALSE)]
           ELSE /\ dom' = dom
                /\ loc' = [loc EXCEPT !.node = getNextNode(dom, node, FALSE)]
    /\ pc' = "walk"
    /\ UNCHANGED <<opts, flags, attempts, articleTitle, articleByline, metadata,
                   pageCache, thrown, result>>
    /\ UNCHANGED <<console, earlier>>

-----------------------------------------------------------------------------
(* grabArticle(): scores and the top candidate                             *)

TagScore(tag) ==
    IF tag = "div" THEN 5
    ELSE IF tag \in {"pre", "td", "blockquote"} THEN 3
    ELSE IF tag \in {"address", "ol", "ul", "dl", "dd", "dt", "li", "form"} THEN -3
    ELSE IF tag \in {"h1", "h2", "h3", "h4", "h5", "h6", "th"} THEN -5
    ELSE 0

getClassWeight(d, el, fl) ==
    IF ~flagIsActive(fl, FLAG_WEIGHT_CLASSES) THEN 0
    ELSE LET weigh(a) ==
                 IF HasAttr(d, el, a) /\ Attr(d, el, a) # ""
                 THEN (IF negative(Attr(d, el, a)) THEN -25 ELSE 0)
                      + (IF positive(Attr(d, el, a)) THEN 25 ELSE 0)
                 ELSE 0
         IN  weigh("class") + weigh("id")

addContentScore(d, element, fl) ==
    IF d[element].score # <<>> THEN d
    ELSE [d EXCEPT ![element].score =
             <<TagScore(d[element].tag) + getClassWeight(d, element, fl), 1>>]

\* ancestors.forEach((ancestor, level) => ...), from the ancestor at `level` (1 is the parent) on
RECURSIVE ScoreAncestors(_, _, _, _, _)
ScoreAncestors(st, ancestors, level, contentScore, fl) ==
    IF level > Len(ancestors) THEN st
    ELSE LET ancestor == ancestors[level]
             d == st.d
         IN  IF \/ ~IsElem(d, ancestor)
                \/ Parent(d, ancestor) = 0
                \/ ~IsElem(d, Parent(d, ancestor))
             THEN ScoreAncestors(st, ancestors, level + 1, contentScore, fl)
             ELSE LET fresh == d[ancestor].score = <<>>
                      d1 == addContentScore(d, ancestor, fl)
                      scoreDivider == IF level = 1 THEN 1
                                      ELSE IF level = 2 THEN 2
                                      ELSE (level - 1) * 3
                      d2 == [d1 EXCEPT ![ancestor].score =
                                FAdd(@, Frac(contentScore, scoreDivider))]
                  IN  ScoreAncestors(
                          [d |-> d2,
                           candidates |-> IF fresh THEN Append(st.candidates, ancestor)
                                          ELSE st.candidates],
                          ancestors, level + 1, contentScore, fl)

\* elementsToScore.forEach(...)
RECURSIVE ScoreElements(_, _, _)
ScoreElements(st, elementsToScore, fl) ==
    IF elementsToScore = <<>> THEN st
    ELSE LET el == Head(elementsToScore)
             d == st.d
             parentNode == Parent(d, el)
             innerText == getInnerText(d, el, TRUE)
             ancestors == getNodeAncestors(d, el, 5)
             contentScore == 1 + (CountIn(innerText, commas) + 1)
                               + Min(Len(innerText) \div 100, 3)
         IN  IF \/ parentNode = 0
                \/ ~IsElem(d, parentNode)
                \/ Len(innerText) < 25
                \/ ancestors = <<>>
             THEN ScoreElements(st, Tail(elementsToScore), fl)
             ELSE ScoreElements(ScoreAncestors(st, ancestors, 1, contentScore, fl),
                                Tail(elementsToScore), fl)

\* the scoring of the elements the first loop collected
Score ==
    /\ pc = "walk"
    /\ loc.node = 0
    /\ LET st == ScoreElements([d |-> dom, candidates |-> <<>>],
                               loc.elementsToScore, flags)
       IN  /\ dom' = st.d
           /\ loc' = [loc EXCEPT !.candidates = st.candidates, !.c = 1,
                                 !.topCandidates = <<>>]
    /\ pc' = "topCandidates"
    /\ UNCHANGED <<opts, flags, attempts, articleTitle, articleByline, metadata,
                   pageCache, thrown, result>>
    /\ UNCHANGED <<console, earlier>>

\* 1 - x
OneMinus(x) == Frac(x[2] - x[1], x[2])

\* the for (t ...) loop: the list with `candidate` inserted before the first entry
\* it beats, or at the end, and cut to nbTopCandidates entries
\* the candidate also goes before an entry of the same score
InsertCandidateLaterWins(d, topCandidates, candidate, nbTopCandidates) ==
    LET beats == {t \in 1..Min(Len(topCandidates), nbTopCandidates) :
                     FLeq(d[topCandidates[t]].score, d[candidate].score)}
        t == IF beats # {} THEN CHOOSE i \in beats : \A j \in beats : i <= j
             ELSE Len(topCandidates) + 1
        spliced == InsertAt(topCandidates, t, candidate)
    IN  IF t > nbTopCandidates THEN topCandidates
        ELSE IF Len(spliced) > nbTopCandidates
        THEN SubSeq(spliced, 1, Len(spliced) - 1)
        ELSE spliced

InsertCandidate(d, topCandidates, candidate, nbTopCandidates) ==
    LET beats == {t \in 1..Min(Len(topCandidates), nbTopCandidates) :
                     FLess(d[topCandidates[t]].score, d[candidate].score)}
        t == IF beats # {} THEN CHOOSE i \in beats : \A j \in beats : i <= j
             ELSE Len(topCandidates) + 1
        spliced == InsertAt(topCandidates, t, candidate)
    IN  IF t > nbTopCandidates THEN topCandidates
        ELSE IF Len(spliced) > nbTopCandidates
        THEN SubSeq(spliced, 1, Len(spliced) - 1)
        ELSE spliced

\* one iteration of for (c ...) over the candidates
TopCandidatesStep ==
    /\ pc = "topCandidates"
    /\ loc.c <= Len(loc.candidates)
    /\ LET candidate == loc.candidates[loc.c]
           candidateScore == FMul(dom[candidate].score,
                                  OneMinus(getLinkDensity(dom, candidate)))
           d1 == [dom EXCEPT ![candidate].score = candidateScore]
       IN  /\ dom' = d1
           /\ loc' = [loc EXCEPT
                        !.c = @ + 1,
                        !.topCandidates =
                            InsertCandidate(d1, @, candidate, opts.nbTopCandidates)]
    /\ UNCHANGED <<opts, pc, flags, attempts, articleTitle, articleByline,
                   metadata, pageCache, thrown, result>>
    /\ console' = log(console, opts.debug, <<"Candidate:">>)
    /\ UNCHANGED earlier

\* x / y >= 3/4 as JavaScript computes it (a division by zero gives an infinity or NaN)
RatioAtLeastThreeQuarters(x, y) ==
    IF y[1] = 0 THEN x[1] > 0
    ELSE FLeq(ThreeQuarters, Frac(x[1] * y[2], x[2] * y[1]))

MINIMUM_TOPCANDIDATES == 3

\* the ancestor lists of the other top candidates whose score is close to the first one's
alternativeCandidateAncestors(d, topCandidates) ==
    LET close == SelectSeq(Tail(topCandidates),
                           LAMBDA c : RatioAtLeastThreeQuarters(d[c].score,
                                                                d[topCandidates[1]].score))
    IN  [i \in 1..Len(close) |-> getNodeAncestors(d, close[i], 0)]

IsTagBelowBody(d, n) == n # 0 /\ IsElem(d, n) /\ d[n].tag # "body"

\* the first ancestor of the top candidate below <body> that at least
\* MINIMUM_TOPCANDIDATES of the lists hold, 0 if there is none
RECURSIVE CommonAncestor(_, _, _)
CommonAncestor(d, lists, parentOfTopCandidate) ==
    IF ~IsTagBelowBody(d, parentOfTopCandidate) THEN 0
    ELSE IF Cardinality({i \in 1..Len(lists) : InSeq(parentOfTopCandidate, lists[i])})
            >= MINIMUM_TOPCANDIDATES
    THEN parentOfTopCandidate
    ELSE CommonAncestor(d, lists, Parent(d, parentOfTopCandidate))

\* the walk up the parents while the score does not drop below a third: the
\* first parent whose score is higher than the last one seen, else the candidate
RECURSIVE BetterParent(_, _, _, _, _)
BetterParent(d, topCandidate, parentOfTopCandidate, lastScore, scoreThreshold) ==
    IF ~IsTagBelowBody(d, parentOfTopCandidate) THEN topCandidate
    ELSE IF d[parentOfTopCandidate].score = <<>>
    THEN BetterParent(d, topCandidate, Parent(d, parentOfTopCandidate), lastScore,
                      scoreThreshold)
    ELSE LET parentScore == d[parentOfTopCandidate].score
         IN  IF FLess(parentScore, scoreThreshold) THEN topCandidate
             ELSE IF FLess(lastScore, parentScore) THEN parentOfTopCandidate
             ELSE BetterParent(d, topCandidate, Parent(d, parentOfTopCandidate),
                               parentScore, scoreThreshold)

\* while the top candidate is the only element child of a parent below <body>, use the parent
RECURSIVE OnlyChildClimb(_, _, _)
OnlyChildClimb(d, topCandidate, fl) ==
    LET parentOfTopCandidate == Parent(d, topCandidate)
    IN  IF /\ IsTagBelowBody(d, parentOfTopCandidate)
           /\ Len(ElemKids(d, parentOfTopCandidate)) = 1
        THEN OnlyChildClimb(addContentScore(d, parentOfTopCandidate, fl),
                            parentOfTopCandidate, fl)
        ELSE [d |-> d, topCandidate |-> topCandidate]

\* the choice of the top candidate, and the set-up of the loop over its siblings
ChooseTopCandidate ==
    /\ pc = "topCandidates"
    /\ loc.c > Len(loc.candidates)
    /\ LET first == IF loc.topCandidates = <<>> THEN 0 ELSE loc.topCandidates[1]
           page == Body(dom)
           needed == first = 0 \/ dom[first].tag = "body"
           \* the body as a last resort: its children move into a new <div>
           created == Created(dom)
           dA == addContentScore(
                     AppendChild(AppendAll(NewElem(dom, "div"), created, dom[page].kids),
                                 page, created),
                     created, flags)
           \* or a better candidate among the ancestors
           lists == alternativeCandidateAncestors(dom, loc.topCandidates)
           common == IF Len(lists) >= MINIMUM_TOPCANDIDATES
                     THEN CommonAncestor(dom, lists, Parent(dom, first))
                     ELSE 0
           d1 == IF common # 0 THEN addContentScore(dom, common, flags) ELSE dom
           top1 == IF common # 0 THEN common ELSE first
           top2 == BetterParent(d1, top1, Parent(d1, top1), d1[top1].score,
                                FMul(d1[top1].score, <<1, 3>>))
           climbed == OnlyChildClimb(d1, top2, flags)
           dB == climbed.d
           topCandidate == IF needed THEN created ELSE climbed.topCandidate
           d2 == IF needed THEN dA ELSE dB
           \* let $articleContent = $('<div></div>')
           d3 == NewElem(d2, "div")
           parentOfTopCandidate == Parent(d3, topCandidate)
           siblings == IF parentOfTopCandidate # 0
                       THEN ElemKids(d3, parentOfTopCandidate) ELSE <<>>
       IN  /\ dom' = d3
           /\ loc' = [loc EXCEPT !.topCandidate = topCandidate,
                                 !.neededToCreateTopCandidate = needed,
                                 !.parentOfTopCandidate = parentOfTopCandidate,
                                 !.articleContent = Created(d2),
                                 !.siblings = siblings,
                                 !.s = 0,
                                 !.sl = Len(siblings)]
    /\ pc' = "siblings"
    /\ UNCHANGED <<opts, flags, attempts, articleTitle, articleByline, metadata,
                   pageCache, thrown, result>>
    /\ UNCHANGED <<console, earlier>>

-----------------------------------------------------------------------------
(* grabArticle(): the loop over the siblings of the top candidate          *)

\* nodeContent.search(/\.( |$)/) !== -1
EndsSentence(t) ==
    \E i \in 1..Len(t) : t[i] = 46 /\ (i = Len(t) \/ t[i + 1] = 32)

FMax(x, y) == IF FLess(x, y) THEN y ELSE x

\* whether the loop appends `sibling` to the article
AppendsSibling(d, sibling, topCandidate) ==
    LET topScore == d[topCandidate].score
        siblingScoreThreshold == FMax(<<10, 1>>, FMul(topScore, <<1, 5>>))
        contentBonus ==
            IF /\ Attr(d, sibling, "class") = Attr(d, topCandidate, "class")
               /\ HasAttr(d, topCandidate, "class")
               /\ Attr(d, topCandidate, "class") # ""
            THEN FMul(topScore, <<1, 5>>) ELSE <<0, 1>>
        linkDensity == getLinkDensity(d, sibling)
        nodeContent == getInnerText(d, sibling, TRUE)
        nodeLength == Len(nodeContent)
    IN  \/ sibling = topCandidate
        \/ /\ d[sibling].score # <<>>
           /\ FLeq(siblingScoreThreshold, FAdd(d[sibling].score, contentBonus))
        \/ /\ d[sibling].tag = "p"
           /\ \/ (nodeLength > 80 /\ FLess(linkDensity, <<1, 4>>))
              \/ /\ nodeLength < 80
                 /\ nodeLength > 0
                 /\ linkDensity[1] = 0
                 /\ EndsSentence(nodeContent)

\* the messages one iteration of the loop over the siblings hands to this.log
SiblingMessages(d, sibling, topCandidate) ==
    <<"Looking at sibling node:">>
    \o (IF ~AppendsSibling(d, sibling, topCandidate) THEN <<>>
        ELSE <<"Appending node:">>
             \o (IF d[sibling].tag \notin ALTER_TO_DIV_EXCEPTIONS
                 THEN <<"Altering sibling:">> ELSE <<>>))

\* the index the loop goes on with when it forgets that an append shifts the rest
SiblingIndexShifted(s, append) == s + 1

\* s after one iteration: s -= 1 where the sibling was appended, then s++
SiblingIndexAfter(s, append) == IF append THEN (s - 1) + 1 ELSE s + 1

\* one iteration of for (s ...) over the siblings
SiblingStep ==
    /\ pc = "siblings"
    /\ loc.s < loc.sl
    /\ LET sibling == loc.siblings[loc.s + 1]
       IN  IF AppendsSibling(dom, sibling, loc.topCandidate)
           THEN LET d1 == IF dom[sibling].tag \notin ALTER_TO_DIV_EXCEPTIONS
                          THEN [dom EXCEPT ![sibling].tag = "div"] ELSE dom
                    d2 == AppendChild(d1, loc.articleContent, sibling)
                IN  /\ dom' = d2
                    /\ loc' = [loc EXCEPT
                                 !.siblings =
                                     IF loc.parentOfTopCandidate # 0
                                     THEN ElemKids(d2, loc.parentOfTopCandidate)
                                     ELSE <<>>,
                                 !.s = SiblingIndexAfter(@, TRUE),
                                 !.sl = @ - 1]
           ELSE /\ dom' = dom
                /\ loc' = [loc EXCEPT !.s = SiblingIndexAfter(@, FALSE)]
    /\ UNCHANGED <<opts, pc, flags, attempts, articleTitle, articleByline,
                   metadata, pageCache, thrown, result>>
    /\ console' = log(console, opts.debug, SiblingMessages(dom, loc.siblings[loc.s + 1], loc.topCandidate))
    /\ UNCHANGED earlier

-----------------------------------------------------------------------------
(* prepArticle() and the cleaners it calls                                 *)

isDataTable(d, t) == d[t].dataTable = "true"

\* parseInt(v, 10) || 1 on the attribute values used
SpanOf(v) == IF v = "2" THEN 2 ELSE IF v = "3" THEN 3 ELSE 1

getRowAndColumnCount(d, table) ==
    LET trs == Find(d, table, {"tr"})
        columnsInThisRow(tr) ==
            LET cells == Find(d, tr, {"td"})
            IN  SumSeq([i \in 1..Len(cells) |-> SpanOf(Attr(d, cells[i], "colspan"))])
        counts == [i \in 1..Len(trs) |-> columnsInThisRow(trs[i])]
    IN  [rows |-> SumSeq([i \in 1..Len(trs) |-> SpanOf(Attr(d, trs[i], "rowspan"))]),
         columns |-> IF trs = <<>> THEN 0
                     ELSE CHOOSE c \in Range(counts) : \A c2 \in Range(counts) : c2 <= c]

\* table._readabilityDataTable as markDataTables sets it
DataTableMark(d, table) ==
    LET sizeInfo == getRowAndColumnCount(d, table)
        captions == Find(d, table, {"caption"})
    IN  IF Attr(d, table, "role") = "presentation" THEN "false"
        ELSE IF Attr(d, table, "datatable") = "0" THEN "false"
        ELSE IF HasAttr(d, table, "summary") /\ Attr(d, table, "summary") # "" THEN "true"
        ELSE IF \E i \in 1..Len(captions) : FindAll(d, captions[i]) # <<>> THEN "true"
        ELSE IF Find(d, table, {"col", "colgroup", "tfoot", "thead", "th"}) # <<>> THEN "true"
        ELSE IF Find(d, table, {"table"}) # <<>> THEN "false"
        ELSE IF sizeInfo.columns = 1 \/ sizeInfo.rows = 1 THEN "false"
        ELSE IF sizeInfo.rows >= 10 \/ sizeInfo.columns > 4 THEN "true"
        ELSE IF sizeInfo.rows * sizeInfo.columns > 10 THEN "true"
        ELSE "false"

markDataTables(d, el) ==
    LET tables == Find(d, el, {"table"})
    IN  [n \in 1..Len(d) |->
            IF InSeq(n, tables) THEN [d[n] EXCEPT !.dataTable = DataTableMark(d, n)]
            ELSE d[n]]

\* the patterns of fixLazyImages on the attribute values the documents use:
\* regexes.b64DataUrl, its media type, the length of the data after `base64,`,
\* /\.(jpg|jpeg|png|webp)/i, /\.(jpg|jpeg|png|webp)\s+\d/ and
\* /^\s*\S+\.(jpg|jpeg|png|webp)\S*\s*$/
b64DataUrl(v) == v \in {"data:image/gif;base64,R0"}

B64MediaType(v) == IF v = "data:image/gif;base64,R0" THEN "image/gif" ELSE Absent

B64Length(v) == IF v = "data:image/gif;base64,R0" THEN 2 ELSE 0

NamesAnImage(v) == v \in {"a.png", "c.png", "b.png 1x"}

LooksLikeSrcset(v) == v \in {"b.png 1x"}

LooksLikeSrc(v) == v \in {"a.png", "c.png"}

\* the attribute the value of the attribute a is copied to, Absent for none
CopyTo(a) ==
    IF a[1] \in {"src", "srcset", "alt"} THEN Absent
    ELSE IF LooksLikeSrcset(a[2]) THEN "srcset"
    ELSE IF LooksLikeSrc(a[2]) THEN "src"
    ELSE Absent

\* the body of the each() of fixLazyImages for one <img>, <picture> or <figure>
fixLazyImage(d, el) ==
    LET src == Attr(d, el, "src")
        isB64 == HasAttr(d, el, "src") /\ b64DataUrl(src)
        srcCouldBeRemoved ==
            \E a \in d[el].attribs : a[1] # "src" /\ NamesAnImage(a[2])
        d1 == IF isB64 /\ srcCouldBeRemoved /\ B64Length(src) < 133
              THEN DelAttr(d, el, "src") ELSE d
        copies(to) == {a \in d[el].attribs : CopyTo(a) = to}
        copied(dd, n, to) ==
            IF copies(to) = {} THEN dd
            ELSE SetAttr(dd, n, to, (CHOOSE a \in copies(to) : TRUE)[2])
        created == Created(d1)
    IN  IF isB64 /\ B64MediaType(src) = "image/svg+xml" THEN d
        ELSE IF d[el].tag \in {"img", "picture"}
        THEN copied(copied(d1, el, "srcset"), el, "src")
        ELSE IF /\ d[el].tag = "figure"
                /\ Find(d1, el, {"img", "picture"}) = <<>>
                /\ copies("srcset") \cup copies("src") # {}
        THEN LET to == CopyTo(CHOOSE a \in copies("srcset") \cup copies("src") : TRUE)
             IN  AppendChild(copied(NewElem(d1, "img"), created, to), el, created)
        ELSE d1

RECURSIVE FixLazyImagesOf(_, _)
FixLazyImagesOf(d, els) ==
    IF els = <<>> THEN d ELSE FixLazyImagesOf(fixLazyImage(d, Head(els)), Tail(els))

fixLazyImages(d, el) == FixLazyImagesOf(d, Find(d, el, {"img", "picture", "figure"}))

\* the filter of clean($el, tag): an embed with an attribute the video pattern
\* matches is kept
ShouldClean(d, node, tag) ==
    ~ /\ tag \in {"object", "embed", "iframe"}
      /\ \/ \E a \in d[node].attribs : allowedVideoRegex(a[2])
         \/ /\ d[node].tag = "object"
            /\ \E k \in Range(Desc(d, node)) :
                   \E a \in d[k].attribs : allowedVideoRegex(a[2])

getTextDensity(d, el, tags) ==
    LET textLength == Len(getInnerText(d, el, TRUE))
        children == Find(d, el, tags)
        childrenLength ==
            SumSeq([i \in 1..Len(children) |-> Len(getInnerText(d, children[i], TRUE))])
    IN  IF textLength = 0 THEN <<0, 1>> ELSE Frac(childrenLength, textLength)

\* regexes.adWords and regexes.loadingWords (both anchored and case-insensitive)
adWords(t) ==
    ToLower(t) \in
        {<<97, 100>>,
         <<97, 100, 118, 101, 114, 116, 105, 115, 105, 110, 103>>,
         <<97, 100, 118, 101, 114, 116, 105, 115, 101, 109, 101, 110, 116>>,
         <<112, 117, 98>>,
         <<112, 117, 98, 108, 105, 99, 105, 116, 233>>,
         <<119, 101, 114, 98>>,
         <<119, 101, 114, 98, 117, 110, 103>>,
         <<24191, 21578>>,
         <<1088, 1077, 1082, 1083, 1072, 1084, 1072>>,
         <<97, 110, 117, 110, 99, 105, 111>>}

LoadingWordList ==
    {<<108, 111, 97, 100, 105, 110, 103>>,
     <<27491, 22312, 21152, 36733>>,
     <<1079, 1072, 1075, 1088, 1091, 1079, 1082, 1072>>,
     <<99, 104, 97, 114, 103, 101, 109, 101, 110, 116>>,
     <<99, 97, 114, 103, 97, 110, 100, 111>>}

\* the word alone, or followed by an ellipsis or by three dots
loadingWords(t) ==
    \E w \in LoadingWordList :
        ToLower(t) \in {w, w \o <<8230>>, w \o <<46, 46, 46>>}

\* the filter of cleanConditionally($el, tag)
ShouldCleanConditionally(d, node, tag, fl, o) ==
    LET innerText == getInnerText(d, node, TRUE)
        lists == Find(d, node, {"ul", "ol"})
        listLength == SumSeq([i \in 1..Len(lists) |->
                                 Len(getInnerText(d, lists[i], TRUE))])
        isList == \/ tag \in {"ul", "ol"}
                  \/ (Len(innerText) > 0 /\ 10 * listLength > 9 * Len(innerText))
        weight == getClassWeight(d, node, fl)
        charCount == CountIn(innerText, {44})
        p == Len(Find(d, node, {"p"}))
        img == Len(Find(d, node, {"img"}))
        li == Len(Find(d, node, {"li"})) - 100
        input == Len(Find(d, node, {"input"}))
        headingDensity == getTextDensity(d, node, {"h1", "h2", "h3", "h4", "h5", "h6"})
        embeds == Find(d, node, {"object", "embed", "iframe"})
        hasVideo ==
            \E i \in 1..Len(embeds) :
                \/ \E a \in d[embeds[i]].attribs : allowedVideoRegex(a[2])
                \/ /\ d[embeds[i]].tag = "object"
                   /\ \E k \in Range(Desc(d, embeds[i])) :
                          \E a \in d[k].attribs : allowedVideoRegex(a[2])
        embedCount == Len(embeds)
        contentLength == Len(innerText)
        linkDensity == getLinkDensity(d, node)
        textDensity == getTextDensity(d, node, {"span", "li", "td"} \cup DIV_TO_P_ELEMS)
        isFigureChild == hasAncestorTag(d, node, "figure", 3, Nodes(d))
        modifier == <<o.linkDensityModifier, 1>>
        shouldRemoveNode ==
            \/ (~isFigureChild /\ img > 1 /\ 2 * p < img)
            \/ (~isList /\ li > p)
            \/ input > p \div 3
            \/ /\ ~isList
               /\ ~isFigureChild
               /\ FLess(headingDensity, <<9, 10>>)
               /\ contentLength < 25
               /\ (img = 0 \/ img > 2)
               /\ linkDensity[1] > 0
            \/ (~isList /\ weight < 25 /\ FLess(FAdd(<<1, 5>>, modifier), linkDensity))
            \/ (weight >= 25 /\ FLess(FAdd(<<1, 2>>, modifier), linkDensity))
            \/ (embedCount = 1 /\ contentLength < 75)
            \/ embedCount > 1
            \/ (img = 0 /\ textDensity[1] = 0)
        children == ElemKids(d, node)
    IN  IF tag = "table" /\ isDataTable(d, node) THEN FALSE
        ELSE IF hasAncestorTag(d, node, "table", -1, {t \in Nodes(d) : isDataTable(d, t)}) THEN FALSE
        ELSE IF hasAncestorTag(d, node, "code", 3, Nodes(d)) THEN FALSE
        ELSE IF \E t \in Range(Find(d, node, {"table"})) : isDataTable(d, t) THEN FALSE
        ELSE IF weight < 0 THEN TRUE
        ELSE IF charCount > 10 THEN FALSE
        ELSE IF hasVideo THEN FALSE
        ELSE IF adWords(innerText) \/ loadingWords(innerText) THEN TRUE
        ELSE IF isList /\ shouldRemoveNode
        THEN IF \E i \in 1..Len(children) : Len(ElemKids(d, children[i])) > 1 THEN TRUE
             ELSE img # Len(Find(d, node, {"li"}))
        ELSE shouldRemoveNode

\* the filter of `Remove extra paragraphs`
IsExtraParagraph(d, node) ==
    /\ Find(d, node, {"img", "embed", "object", "iframe"}) = <<>>
    /\ getInnerText(d, node, FALSE) = <<>>

\* fn($node) for the filters handed to removeNodes: those of clean,
\* cleanConditionally, cleanHeaders and `Remove extra paragraphs`
Holds(fn, d, node) ==
    CASE fn.of = "clean" -> ShouldClean(d, node, fn.tag)
      [] fn.of = "cleanConditionally" ->
             ShouldCleanConditionally(d, node, fn.tag, fn.flags, fn.options)
      [] fn.of = "cleanHeaders" -> getClassWeight(d, node, fn.flags) < 0
      [] fn.of = "extraParagraphs" -> IsExtraParagraph(d, node)

\* removeNodes($coll, fn): from the last node of the collection to the first,
\* a node is removed when fn holds of it in the tree as it is by then
RECURSIVE removeNodesIf(_, _, _)
removeNodesIf(d, coll, fn) ==
    IF coll = <<>> THEN d
    ELSE LET node == coll[Len(coll)]
         IN  removeNodesIf(IF Holds(fn, d, node) THEN Detach(d, node) ELSE d,
                           SubSeq(coll, 1, Len(coll) - 1), fn)

clean(d, el, tag) ==
    removeNodesIf(d, Find(d, el, {tag}), [of |-> "clean", tag |-> tag])

cleanHeaders(d, el, fl) ==
    removeNodesIf(d, Find(d, el, {"h1", "h2"}), [of |-> "cleanHeaders", flags |-> fl])

cleanConditionally(d, el, tag, fl, o) ==
    IF ~flagIsActive(fl, FLAG_CLEAN_CONDITIONALLY) THEN d
    ELSE removeNodesIf(d, Find(d, el, {tag}),
                       [of |-> "cleanConditionally", tag |-> tag, flags |-> fl,
                        options |-> o])

\* the filter prepArticle hands to cleanMatchedNodes
IsShareElement(d, n) ==
    /\ \E w \in MatchString(d, n) : shareElements(w)
    /\ Len(TextOf(d, n)) < DEFAULT_CHAR_THRESHOLD

\* clean($el, tag) for the tags of the list, in their order
RECURSIVE CleanTags(_, _, _)
CleanTags(d, el, tags) ==
    IF tags = <<>> THEN d ELSE CleanTags(clean(d, el, Head(tags)), el, Tail(tags))

\* the tree after the first statements of prepArticle: cleanStyles,
\* markDataTables, fixLazyImages, the two cleanConditionally and the five clean
prepArticleHead(d, a, fl, o) ==
    CleanTags(
        cleanConditionally(
            cleanConditionally(
                fixLazyImages(markDataTables(cleanStyles(d, a), a), a),
                a, "form", fl, o),
            a, "fieldset", fl, o),
        a, <<"object", "embed", "footer", "link", "aside">>)

\* the node cleanMatchedNodes starts at for the first child, 0 for none
FirstMatched(d, children) ==
    IF children = <<>> THEN 0 ELSE getNextNode(d, children[1], FALSE)

\* prepArticle up to the loop over the children of the article
PrepArticleStart ==
    /\ pc = "siblings"
    /\ loc.s >= loc.sl
    /\ dom' = prepArticleHead(dom, loc.articleContent, flags, opts)
    /\ loc' = [loc EXCEPT
                 !.children = ElemKids(dom', loc.articleContent),
                 !.node = FirstMatched(dom', ElemKids(dom', loc.articleContent))]
    /\ pc' = "cleanMatchedNodes"
    /\ UNCHANGED <<opts, flags, attempts, articleTitle, articleByline, metadata,
                   pageCache, thrown, result>>
    /\ console' = log(console, opts.debug, <<"Article content pre-prep:">>)
    /\ UNCHANGED earlier

\* one iteration of the while of cleanMatchedNodes.  $next and
\* $endOfSearchMarkerNode are two cheerio objects, never the same object, so
\* the walk only ends when getNextNode finds nothing more.
CleanMatchedNodesStep ==
    /\ pc = "cleanMatchedNodes"
    /\ loc.children # <<>>
    /\ loc.node # 0
    /\ IF IsShareElement(dom, loc.node)
       THEN /\ dom' = Detach(dom, loc.node)
            /\ loc' = [loc EXCEPT !.node = getNextNode(dom, loc.node, TRUE)]
       ELSE /\ dom' = dom
            /\ loc' = [loc EXCEPT !.node = getNextNode(dom, loc.node, FALSE)]
    /\ UNCHANGED <<opts, pc, flags, attempts, articleTitle, articleByline,
                   metadata, pageCache, thrown, result>>
    /\ UNCHANGED <<console, earlier>>

\* the end of cleanMatchedNodes for one child of the article, and the call for the next
NextMatchedChild ==
    /\ pc = "cleanMatchedNodes"
    /\ loc.children # <<>>
    /\ loc.node = 0
    /\ LET rest == Tail(loc.children)
       IN  loc' = [loc EXCEPT !.children = rest,
                              !.node = IF rest = <<>> THEN 0
                                       ELSE getNextNode(dom, rest[1], FALSE)]
    /\ UNCHANGED <<dom, opts, pc, flags, attempts, articleTitle, articleByline,
                   metadata, pageCache, thrown, result>>
    /\ UNCHANGED <<console, earlier>>

\* the tree after the five clean from 'iframe' on, cleanHeaders and the
\* conditional cleaning of the tables, the lists and the <div>s
prepArticleCleaned(d, a, fl, o) ==
    cleanConditionally(
        cleanConditionally(
            cleanConditionally(
                cleanHeaders(
                    CleanTags(d, a, <<"iframe", "input", "textarea", "select", "button">>),
                    a, fl),
                a, "table", fl, o),
            a, "ul", fl, o),
        a, "div", fl, o)

\* prepArticle from clean($articleContent, 'iframe') to the conditional cleaning
PrepArticleClean ==
    /\ pc = "cleanMatchedNodes"
    /\ loc.children = <<>>
    /\ dom' = prepArticleCleaned(dom, loc.articleContent, flags, opts)
    /\ pc' = "prepArticleEnd"
    /\ UNCHANGED <<opts, flags, attempts, articleTitle, articleByline, metadata,
                   loc, pageCache, thrown, result>>
    /\ UNCHANGED <<console, earlier>>

\* $articleContent.find('br').each(...): a <br> that a <p> follows is removed
RECURSIVE RemoveBrsBeforeP(_, _)
RemoveBrsBeforeP(d, brList) ==
    IF brList = <<>> THEN d
    ELSE LET br == Head(brList)
             next == nextNode(d, NextSibling(d, br))
         IN  RemoveBrsBeforeP(IF next # 0 /\ d[next].tag = "p" THEN Detach(d, br) ELSE d,
                              Tail(brList))

\* the body of the each() of `Remove single-cell tables` for one table
collapseTable(d, node) ==
    LET tbody == IF hasSingleTagInsideElement(d, node, "tbody")
                 THEN ElemKids(d, node)[1] ELSE node
        row == ElemKids(d, tbody)[1]
        cell == ElemKids(d, row)[1]
        tag == IF \A i \in 1..Len(d[cell].kids) : isPhrasingContent(d, d[cell].kids[i])
               THEN "p" ELSE "div"
    IN  IF ~hasSingleTagInsideElement(d, tbody, "tr") THEN d
        ELSE IF ~hasSingleTagInsideElement(d, row, "td") THEN d
        ELSE ReplaceWith([d EXCEPT ![cell].tag = tag], node, cell)

RECURSIVE CollapseTables(_, _)
CollapseTables(d, tables) ==
    IF tables = <<>> THEN d
    ELSE CollapseTables(collapseTable(d, Head(tables)), Tail(tables))

RemoveBrsOf(d, el) == RemoveBrsBeforeP(d, Find(d, el, {"br"}))

CollapseTablesOf(d, el) == CollapseTables(d, Find(d, el, {"table"}))

\* a prepArticle that leaves the <h1> as they are
RenameHeadingsSkipped(d, el) == d

\* the <h1> of the article renamed to <h2>
RenameHeadings(d, el) == replaceNodeTags(d, Find(d, el, {"h1"}), "h2")

\* `Remove extra paragraphs`
RemoveExtraParagraphs(d, el) ==
    removeNodesIf(d, Find(d, el, {"p"}), [of |-> "extraParagraphs"])

\* the tree after the last statements of prepArticle: the <h1> renamed, the
\* extra paragraphs and the <br> before a <p> removed, the single-cell tables collapsed
prepArticleFinished(d, a) ==
    CollapseTablesOf(RemoveBrsOf(RemoveExtraParagraphs(RenameHeadings(d, a), a), a), a)

\* the end of prepArticle
PrepArticleFinish ==
    /\ pc = "prepArticleEnd"
    /\ dom' = prepArticleFinished(dom, loc.articleContent)
    /\ pc' = "paging"
    /\ UNCHANGED <<opts, flags, attempts, articleTitle, articleByline, metadata,
                   loc, pageCache, thrown, result>>
    /\ console' = log(console, opts.debug, <<"Article content post-prep:">>)
    /\ UNCHANGED earlier

-----------------------------------------------------------------------------
(* grabArticle(): the page <div>, the length check and the retries         *)

Paged(d, n) == SetAttr(SetAttr(d, n, "id", "readability-page-1"), n, "class", "page")

Paging ==
    /\ pc = "paging"
    /\ LET a == loc.articleContent
           div == Created(dom)
       IN  dom' = IF loc.neededToCreateTopCandidate
                  THEN Paged(dom, loc.topCandidate)
                  ELSE AppendChild(AppendAll(Paged(NewElem(dom, "div"), div), div,
                                             dom[a].kids),
                                   a, div)
    /\ pc' = "checkLength"
    /\ UNCHANGED <<opts, flags, attempts, articleTitle, articleByline, metadata,
                   loc, pageCache, thrown, result>>
    /\ console' = log(console, opts.debug, <<"Article content after paging:">>)
    /\ UNCHANGED earlier

\* a sort by length, longest first, that puts a later attempt before an
\* earlier one of the same length
RECURSIVE SortAttemptsUnstable(_)
SortAttemptsUnstable(as) ==
    IF as = <<>> THEN <<>>
    ELSE LET sorted == SortAttemptsUnstable(SubSeq(as, 1, Len(as) - 1))
             last == as[Len(as)]
             before == SelectSeq(sorted, LAMBDA x : x.textLength > last.textLength)
             after == SelectSeq(sorted, LAMBDA x : x.textLength <= last.textLength)
         IN  before \o <<last>> \o after

\* attempts.sort((a, b) => b.textLength - a.textLength): a stable sort, longest first
RECURSIVE SortAttempts(_)
SortAttempts(as) ==
    IF as = <<>> THEN <<>>
    ELSE LET sorted == SortAttempts(SubSeq(as, 1, Len(as) - 1))
             last == as[Len(as)]
             before == SelectSeq(sorted, LAMBDA x : x.textLength >= last.textLength)
             after == SelectSeq(sorted, LAMBDA x : x.textLength < last.textLength)
         IN  before \o <<last>> \o after

\* the text direction, from the ancestors of the final top candidate
ArticleDir(d, parentOfTopCandidate, topCandidate, current) ==
    LET ancestors ==
            <<parentOfTopCandidate, topCandidate>>
            \o (IF parentOfTopCandidate = 0 THEN <<>>
                ELSE getNodeAncestors(d, parentOfTopCandidate, 0))
        hasDir(n) == n # 0 /\ IsElem(d, n) /\ HasAttr(d, n, "dir") /\ Attr(d, n, "dir") # ""
        withDir == SelectSeq(ancestors, hasDir)
    IN  IF withDir = <<>> THEN current ELSE Attr(d, withDir[1], "dir")

\* the WEIGHT_CLASSES flag asked for before the STRIP_UNLIKELYS flag
FlagToRemoveWeightFirst(fl) ==
    IF flagIsActive(fl, FLAG_WEIGHT_CLASSES) THEN FLAG_WEIGHT_CLASSES
    ELSE IF flagIsActive(fl, FLAG_STRIP_UNLIKELYS) THEN FLAG_STRIP_UNLIKELYS
    ELSE IF flagIsActive(fl, FLAG_CLEAN_CONDITIONALLY) THEN FLAG_CLEAN_CONDITIONALLY
    ELSE 0

\* the flag the retry drops: the first active one of the three, 0 when none is left
FlagToRemove(fl) ==
    IF flagIsActive(fl, FLAG_STRIP_UNLIKELYS) THEN FLAG_STRIP_UNLIKELYS
    ELSE IF flagIsActive(fl, FLAG_WEIGHT_CLASSES) THEN FLAG_WEIGHT_CLASSES
    ELSE IF flagIsActive(fl, FLAG_CLEAN_CONDITIONALLY) THEN FLAG_CLEAN_CONDITIONALLY
    ELSE 0

\* the check of the length of the article: the end of grabArticle or another pass
CheckLength ==
    /\ pc = "checkLength"
    /\ LET a == loc.articleContent
           textLength == Len(getInnerText(dom, a, TRUE))
           restored == SetHtml(dom, Body(dom), pageCache)
           pushed == Append(attempts, [articleContent |-> a, textLength |-> textLength])
           sorted == SortAttempts(pushed)
           dir(d) == ArticleDir(d, loc.parentOfTopCandidate, loc.topCandidate,
                                loc.articleDir)
       IN  IF textLength >= opts.charThreshold
           THEN /\ loc' = [loc EXCEPT !.textLength = textLength, !.articleDir = dir(dom)]
                /\ pc' = "fixRelativeUris"
                /\ UNCHANGED <<dom, flags, attempts>>
           ELSE IF FlagToRemove(flags) # 0
           THEN /\ dom' = restored
                /\ flags' = removeFlag(flags, FlagToRemove(flags))
                /\ attempts' = pushed
                /\ loc' = [loc EXCEPT !.textLength = textLength]
                /\ pc' = "passStart"
           ELSE /\ dom' = restored
                /\ attempts' = sorted
                /\ UNCHANGED flags
                /\ IF sorted[1].textLength = 0
                   THEN /\ loc' = [loc EXCEPT !.textLength = textLength,
                                              !.articleContent = 0]
                        /\ pc' = "finish"
                   ELSE /\ loc' = [loc EXCEPT !.textLength = textLength,
                                              !.articleContent = sorted[1].articleContent,
                                              !.articleDir = dir(restored)]
                        /\ pc' = "fixRelativeUris"
    /\ UNCHANGED <<opts, articleTitle, articleByline, metadata, pageCache,
                   thrown, result>>
    /\ console' = log(console, opts.debug, IF pc' = "finish" THEN <<"Grabbed:">> ELSE <<>>)
    /\ UNCHANGED earlier

-----------------------------------------------------------------------------
(* postProcessContent() and the result of parse()                          *)

\* `new URL(p1, baseURI)` throws a TypeError on the first URL of these srcset values
MalformedSrcset(v) == v \in {"http://[ 1x"}

\* srcset.replace(srcsetUrl, ...) on the other values
ResolvedSrcset(v) == IF v = "b.png 1x" THEN "http://fakehost/b.png 1x" ELSE v

IsJavascriptLink(d, link) ==
    HasAttr(d, link, "href") /\ Attr(d, link, "href") \in {"javascript:void(0)"}

\* the body of the first each() of fixRelativeUris for one <a>
fixLink(d, link) ==
    LET childNodes == d[link].kids
        created == Created(d)
    IN  IF ~IsJavascriptLink(d, link) THEN d
        ELSE IF Len(childNodes) = 1 /\ IsText(d, childNodes[1])
        THEN ReplaceWith(NewText(d, TextOf(d, link)), link, created)
        ELSE ReplaceWith(AppendAll(NewElem(d, "span"), created, childNodes),
                         link, created)

RECURSIVE FixLinks(_, _)
FixLinks(d, links) ==
    IF links = <<>> THEN d ELSE FixLinks(fixLink(d, Head(links)), Tail(links))

MediaTags == {"img", "picture", "figure", "video", "audio", "source"}

\* whether the second each() of fixRelativeUris reaches a srcset it cannot resolve
SrcsetThrows(d, articleContent, baseURI) ==
    /\ baseURI # Absent
    /\ \E m \in Range(Find(d, articleContent, MediaTags)) :
           HasAttr(d, m, "srcset") /\ MalformedSrcset(Attr(d, m, "srcset"))

FixSrcsets(d, articleContent) ==
    LET media == Find(d, articleContent, MediaTags)
    IN  [n \in 1..Len(d) |->
            IF InSeq(n, media) /\ HasAttr(d, n, "srcset") /\ Attr(d, n, "srcset") # ""
            THEN [d[n] EXCEPT !.attribs =
                     {a \in @ : a[1] # "srcset"}
                     \cup {<<"srcset", ResolvedSrcset(Attr(d, n, "srcset"))>>}]
            ELSE d[n]]

\* fixRelativeUris($articleContent); the TypeError of `new URL` is not caught
\* anywhere, so parse() throws it
FixRelativeUris ==
    /\ pc = "fixRelativeUris"
    /\ LET a == loc.articleContent
           d1 == FixLinks(dom, Find(dom, a, {"a"}))
       IN  IF SrcsetThrows(d1, a, opts.baseURI)
           THEN /\ dom' = d1
                /\ thrown' = [message |-> "Invalid URL", numTags |-> 0]
                /\ pc' = "thrown"
                /\ UNCHANGED loc
           ELSE /\ dom' = IF opts.baseURI # Absent THEN FixSrcsets(d1, a) ELSE d1
                /\ loc' = [loc EXCEPT !.node = a]
                /\ pc' = "simplifyNestedElements"
                /\ UNCHANGED thrown
    /\ UNCHANGED <<opts, flags, attempts, articleTitle, articleByline, metadata,
                   pageCache, result>>
    /\ console' = log(console, opts.debug, <<"Grabbed:">>)
    /\ UNCHANGED earlier

\* id && id.startsWith('readability') on the id values used
StartsWithReadability(v) == v \in {"readability-page-1"}

\* one iteration of the while of simplifyNestedElements
SimplifyNestedElementsStep ==
    /\ pc = "simplifyNestedElements"
    /\ loc.node # 0
    /\ LET node == loc.node
           parentNode == Parent(dom, node)
           child == ElemKids(dom, node)[1]
           moved == [dom EXCEPT ![child].attribs =
                        {a \in @ : \A b \in dom[node].attribs : b[1] # a[1]}
                        \cup dom[node].attribs]
       IN  IF /\ parentNode # 0
              /\ IsElem(dom, parentNode)
              /\ dom[node].tag \in TAGS_TO_SIMPLIFY
              /\ ~StartsWithReadability(Attr(dom, node, "id"))
              /\ isElementWithoutContent(dom, node)
           THEN /\ dom' = Detach(dom, node)
                /\ loc' = [loc EXCEPT !.node = getNextNode(dom, node, TRUE)]
           ELSE IF /\ parentNode # 0
                   /\ IsElem(dom, parentNode)
                   /\ dom[node].tag \in TAGS_TO_SIMPLIFY
                   /\ ~StartsWithReadability(Attr(dom, node, "id"))
                   /\ \/ hasSingleTagInsideElement(dom, node, "div")
                      \/ hasSingleTagInsideElement(dom, node, "section")
           THEN /\ dom' = ReplaceWith(moved, node, child)
                /\ loc' = [loc EXCEPT !.node = child]
           ELSE /\ dom' = dom
                /\ loc' = [loc EXCEPT !.node = getNextNode(dom, node, FALSE)]
    /\ UNCHANGED <<opts, pc, flags, attempts, articleTitle, articleByline,
                   metadata, pageCache, thrown, result>>
    /\ UNCHANGED <<console, earlier>>

\* cleanClasses($el) on el and the elements under it: a class is kept only if
\* classesToPreserve lists it
cleanClasses(d, el, classesToPreserve) ==
    LET under == {el} \cup Range(FindAll(d, el))
    IN  [n \in 1..Len(d) |->
            IF n \in under
            THEN [d[n] EXCEPT !.attribs =
                     {a \in @ : a[1] = "class" => a[2] \in classesToPreserve}]
            ELSE d[n]]

\* the end of postProcessContent
CleanClasses ==
    /\ pc = "simplifyNestedElements"
    /\ loc.node = 0
    /\ dom' = IF opts.keepClasses THEN dom
              ELSE cleanClasses(dom, loc.articleContent, opts.classesToPreserve)
    /\ pc' = "finish"
    /\ UNCHANGED <<opts, flags, attempts, articleTitle, articleByline, metadata,
                   loc, pageCache, thrown, result>>
    /\ UNCHANGED <<console, earlier>>

\* a || null
OrNull(v) == IF v = <<>> THEN Null ELSE v

\* the rest of parse(): the excerpt, the text and the record it returns
Finish ==
    /\ pc = "finish"
    /\ LET a == loc.articleContent
           paragraphs == IF a = 0 THEN <<>> ELSE Find(dom, a, {"p"})
           excerpt == IF metadata.excerpt = Null /\ paragraphs # <<>>
                      THEN Trim(TextOf(dom, paragraphs[1]))
                      ELSE metadata.excerpt
           textContent == IF a = 0 THEN Null ELSE OrNull(TextOf(dom, a))
       IN  result' =
               [title |-> articleTitle,
                byline |-> IF metadata.byline # Null THEN metadata.byline
                           ELSE articleByline,
                dir |-> loc.articleDir,
                lang |-> loc.articleLang,
                content |-> IF a = 0 \/ dom[a].kids = <<>> THEN Null ELSE <<a>>,
                textContent |-> textContent,
                length |-> IF textContent = Null THEN Null ELSE <<Len(textContent)>>,
                excerpt |-> OrNull(excerpt),
                siteName |-> OrNull(metadata.siteName),
                publishedTime |-> OrNull(metadata.publishedTime)]
    /\ pc' = "done"
    /\ UNCHANGED <<dom, opts, flags, attempts, articleTitle, articleByline,
                   metadata, loc, pageCache, thrown>>
    /\ UNCHANGED <<console, earlier>>

Next ==
    \/ ParseCheckSize
    \/ GetMetadata
    \/ PrepDocument
    \/ ReplaceBrsStep
    \/ StartGrabArticle
    \/ StartPass
    \/ WalkNode
    \/ SimplifyDivsStep
    \/ AfterSimplifyDivs
    \/ Score
    \/ TopCandidatesStep
    \/ ChooseTopCandidate
    \/ SiblingStep
    \/ PrepArticleStart
    \/ CleanMatchedNodesStep
    \/ NextMatchedChild
    \/ PrepArticleClean
    \/ PrepArticleFinish
    \/ Paging
    \/ CheckLength
    \/ FixRelativeUris
    \/ SimplifyNestedElementsStep
    \/ CleanClasses
    \/ Finish

Spec == Init /\ [][Next]_vars

\* the calls that are made a second time with debug set
TwiceScenarios ==
    {<<HeadMeta, Lenient>>,
     <<HeadPlain, DEFAULT_OPTIONS>>,
     <<HeadPlain, [Lenient EXCEPT !.maxElemsToParse = MaxElems]>>,
     <<HeadPlain, [Lenient EXCEPT !.baseURI = "http://fakehost/"]>>}

\* once parse() has returned or thrown: new Readability($, {...options, debug:
\* true}).parse() on a fresh copy of the document the first call was given
ParseAgain ==
    /\ pc \in {"done", "thrown"}
    /\ earlier.ended = ""
    /\ ~opts.debug
    /\ earlier' = [earlier EXCEPT !.ended = pc, !.dom = dom, !.result = result,
                                  !.thrown = thrown]
    /\ dom' = earlier.document
    /\ opts' = [opts EXCEPT !.debug = TRUE]
    /\ pc' = "parse"
    /\ flags' = AllFlags
    /\ attempts' = <<>>
    /\ articleTitle' = Null
    /\ articleByline' = Null
    /\ metadata' = NoMetadata
    /\ loc' = NoLocals
    /\ pageCache' = <<>>
    /\ thrown' = NoError
    /\ result' = NoResult
    /\ UNCHANGED console

TwiceNext == Next \/ ParseAgain

\* two calls of parse() one after the other, the second with debug set
TwiceSpec == InitOf(TwiceScenarios) /\ [][TwiceNext]_vars

\* the calls that keep one or two top candidates
TopScenarios ==
    {<<sc[1], [sc[2] EXCEPT !.nbTopCandidates = n]>> : sc \in TwiceScenarios, n \in 1..2}

\* parse() with a short list of top candidates
TopSpec == InitOf(TopScenarios) /\ [][Next]_vars

\* a short paragraph with a share class, after the fragments or not
FShared == <<P({<<"class", "share">>}, TShort)>>

\* parse() of the documents that may end with the share paragraph
ShareSpec == InitWith(TwiceScenarios, {<<>>, FShared}) /\ [][Next]_vars

\* 'a,a,a,a,a,a,a,a,a,a,a,a.' (eleven commas)
TCommas == Rep(<<97, 44>>, 11) \o <<97, 46>>

\* a block with a negative class whose text has more than ten commas
FCommas == <<E("div", {<<"class", "promo">>}, <<P({}, TCommas), P({}, TShort)>>)>>

\* parse() of the documents that may end with the block of many commas
CommaSpec == InitWith(TwiceScenarios, {<<>>, FCommas}) /\ [][Next]_vars

\* a layout table whose cell holds, two levels down, a block with an unlikely class
FDeepTable ==
    LET side == E("div", {<<"class", "sidebar">>}, <<P({}, TLong), P({}, TShort)>>)
        cell == E("td", {}, <<E("div", {}, <<side, P({}, TLong)>>)>>)
    IN  <<E("table", {}, <<E("tbody", {}, <<E("tr", {}, <<cell>>)>>)>>)>>

\* parse() of the documents that may end with the layout table
DeepSpec == InitWith(TwiceScenarios, {<<>>, FDeepTable}) /\ [][Next]_vars

\* a paragraph with the attributes as
FHidden(as) == <<P(as, TShort)>>

\* the paragraphs isProbablyVisible tells apart
HiddenTails ==
    {<<>>,
     FHidden({<<"aria-modal", "true">>}),
     FHidden({<<"aria-modal", "false">>}),
     FHidden({<<"role", "dialog">>}),
     FHidden({<<"hidden", "">>}),
     FHidden({<<"hidden", "hidden">>}),
     FHidden({<<"style", "display:none">>}),
     FHidden({<<"style", "visibility:hidden">>}),
     FHidden({<<"style", "color:red">>}),
     FHidden({<<"aria-hidden", "true">>}),
     FHidden({<<"aria-hidden", "true">>, <<"class", "fallback-image">>}),
     FHidden({<<"aria-hidden", "false">>})}

\* parse() of the documents that may end with one of these paragraphs
HiddenSpec == InitWith(TwiceScenarios, HiddenTails) /\ [][Next]_vars

\* <br> chains: inside a <p>, several in a row with single <br>s between, three
\* <br>s and nothing else, a chain inside a <span> that follows a chain, and
\* <div>foo<br>bar<br> <br><br>abc</div>
FBrInP == <<E("p", {}, <<T(TShort), E("br", {}, <<>>), E("br", {}, <<>>), T(TOther)>>)>>

FBrMany ==
    <<E("div", {},
        <<T(TShort), E("br", {}, <<>>), E("br", {}, <<>>), T(TOther), E("br", {}, <<>>),
          T(TShort), E("br", {}, <<>>), T(TSpace), E("br", {}, <<>>), T(TOther),
          E("br", {}, <<>>)>>)>>

FBrTriple == <<E("div", {}, <<E("br", {}, <<>>), E("br", {}, <<>>), E("br", {}, <<>>)>>)>>

FBrNested ==
    <<E("div", {},
        <<E("br", {}, <<>>), E("br", {}, <<>>),
          E("span", {}, <<T(TShort), E("br", {}, <<>>), E("br", {}, <<>>), T(TOther)>>),
          P({}, TLong)>>)>>

FBrExample ==
    <<E("div", {},
        <<T(TShort), E("br", {}, <<>>), T(TOther), E("br", {}, <<>>), T(TSpace),
          E("br", {}, <<>>), E("br", {}, <<>>), T(TShort)>>)>>

BrTails == {<<>>, FBrInP, FBrMany, FBrTriple, FBrNested, FBrExample}

\* parse() of the documents that may end with one of these <br> chains
BrSpec == InitWith(TwiceScenarios, BrTails) /\ [][Next]_vars

\* the text 'aaaa aaaa. ', which ends with a space
TTrailing == TShort \o TSpace

\* a <section> that holds a text and one <div>
FSection ==
    <<E("section", {}, <<T(TTrailing), E("div", {}, <<P({}, TLong), P({}, TShort)>>)>>)>>

\* parse() of the documents that may end with the <section>
SectionSpec == InitWith(TwiceScenarios, {<<>>, FSection}) /\ [][Next]_vars

\* the texts 'Breaking News: Foo Wins' and 'Foo Wins'
TBreakingNews ==
    <<66, 114, 101, 97, 107, 105, 110, 103, 32, 78, 101, 119, 115, 58, 32,
      70, 111, 111, 32, 87, 105, 110, 115>>

TFooWins == <<70, 111, 111, 32, 87, 105, 110, 115>>

\* a head whose <title> is 'Breaking News: Foo Wins', and a heading 'Foo Wins'
HeadBreakingNews == E("head", {}, <<E("title", {}, <<T(TBreakingNews)>>)>>)

FFooWins == <<E("h1", {}, <<T(TFooWins)>>)>>

\* parse() of the documents that may have this title and end with this heading
TitleSpec ==
    /\ InitWith(TwiceScenarios \cup {<<HeadBreakingNews, Lenient>>}, {<<>>, FFooWins})
    /\ [][Next]_vars

\* titles that hold character references: 'a&#65;b &#x41;',
\* '&lt;b&gt; &amp; &quot;&apos;', '&#x1F600;', '&#0;', '&#xD800;',
\* '&#1114112;' and '&#128512;'
EntityTitles ==
    {<<97, 38, 35, 54, 53, 59, 98, 32, 38, 35, 120, 52, 49, 59>>,
     <<38, 108, 116, 59, 98, 38, 103, 116, 59, 32, 38, 97, 109, 112, 59, 32, 38, 113, 117, 111, 116, 59, 38, 97, 112, 111, 115, 59>>,
     <<38, 35, 120, 49, 70, 54, 48, 48, 59>>,
     <<38, 35, 48, 59>>,
     <<38, 35, 120, 68, 56, 48, 48, 59>>,
     <<38, 35, 49, 49, 49, 52, 49, 49, 50, 59>>,
     <<38, 35, 49, 50, 56, 53, 49, 50, 59>>}

HeadEntity(title) == E("head", {}, <<E("title", {}, <<T(title)>>)>>)

\* parse() of the documents that may have one of these titles
EntitySpec ==
    /\ InitOf(TwiceScenarios \cup {<<HeadEntity(t), Lenient>> : t \in EntityTitles})
    /\ [][Next]_vars

\* the children load() makes of serialised children: an empty text serialises to
\* nothing and neighbouring texts are read as one text
RECURSIVE Parsed(_)
Parsed(ks) ==
    IF ks = <<>> THEN <<>>
    ELSE LET rest == Parsed(Tail(ks))
             k == [Head(ks) EXCEPT !.k = Parsed(@)]
         IN  IF k.t = "#text" /\ k.x = <<>> THEN rest
             ELSE IF k.t = "#text" /\ rest # <<>> /\ Head(rest).t = "#text"
             THEN <<[k EXCEPT !.x = @ \o Head(rest).x]>> \o Tail(rest)
             ELSE <<k>> \o rest

\* the calls whose article is parsed again, and what follows the fragments
ReparseScenarios == TwiceScenarios \cup {<<HeadPlain, Lenient>>}

ReparseTails == {<<>>, FLinked}

\* once parse() has returned an article: new Readability(load(article.content),
\* options).parse(), content being serializer($articleContent), its inner HTML
ParseContent ==
    /\ pc = "done"
    /\ earlier.ended = ""
    /\ result.content # Null
    /\ earlier' = [earlier EXCEPT !.ended = pc, !.dom = dom, !.result = result,
                                  !.thrown = thrown]
    /\ dom' = DocumentWith({}, E("head", {}, <<>>),
                           Parsed(Literal(dom, result.content[1]).k))
    /\ pc' = "parse"
    /\ flags' = AllFlags
    /\ attempts' = <<>>
    /\ articleTitle' = Null
    /\ articleByline' = Null
    /\ metadata' = NoMetadata
    /\ loc' = NoLocals
    /\ pageCache' = <<>>
    /\ thrown' = NoError
    /\ result' = NoResult
    /\ UNCHANGED <<opts, console>>

ReparseNext == Next \/ ParseContent

\* parse() and then parse() of the content it returned
ReparseSpec == InitWith(ReparseScenarios, ReparseTails) /\ [][ReparseNext]_vars

\* parse() has not returned and has not thrown. Every position but "done" and
\* "thrown" has its action, or two with complementary guards, and every action
\* is total on its guard: Running is ENABLED <<Next>>_vars
Running == pc \notin {"done", "thrown"}

\* parse() is one synchronous call: it keeps taking steps until it returns or
\* throws. This is weak fairness of Next, []<>~ENABLED <<Next>>_vars \/
\* []<><<Next>>_vars, with Running written for ENABLED <<Next>>_vars
FairSpec == Spec /\ ([]<>~Running \/ []<><<Next>>_vars)

-----------------------------------------------------------------------------
(* Properties of parse()                                                   *)

\* the elements of the article parse() has returned: the subtree `content` serialises
Returned ==
    IF pc = "done" /\ result.content # Null
    THEN Range(FindAll(dom, result.content[1]))
    ELSE {}

\* the message of the size check
Aborting == "Aborting parsing document; N elements found"

\* C1: parse() throws 'Aborting parsing document; N elements found', N the
\* number of elements of the document, exactly when maxElemsToParse > 0 and
\* N > maxElemsToParse: a document of exactly maxElemsToParse elements passes
\* the check, and so does every document when maxElemsToParse is 0.
C1_SizeCheck ==
    LET N == Len(FindAll(dom, Root))
    IN  /\ (pc = "thrown" /\ thrown.message = Aborting)
              => /\ thrown.numTags = N
                 /\ opts.maxElemsToParse > 0
                 /\ N > opts.maxElemsToParse
        /\ pc = "metadata"
              => (opts.maxElemsToParse = 0 \/ N <= opts.maxElemsToParse)

\* a document of maxElemsToParse + 1 elements has been rejected
C1_Witness ==
    /\ pc = "thrown"
    /\ thrown.message = Aborting
    /\ thrown.numTags = opts.maxElemsToParse + 1

\* C2: a parse() the size check does not abort never raises: the only error
\* parse() ever ends with is the one of the size check.
C2_OnlySizeCheckThrows ==
    pc = "thrown" => thrown.message = Aborting

\* C3: with extraction false the record parse() returns has content,
\* textContent, length and excerpt all null.
C3_NoExtractionNulls ==
    (pc = "done" /\ ~opts.extraction)
        => /\ result.content = Null
           /\ result.textContent = Null
           /\ result.length = Null
           /\ result.excerpt = Null

\* C4: a non-null content is exactly one top-level element, a <div> of id
\* 'readability-page-1' and class 'page'.
C4_SinglePageDiv ==
    (pc = "done" /\ result.content # Null)
        => LET top == dom[result.content[1]].kids
           IN  /\ Len(top) = 1
               /\ dom[top[1]].tag = "div"
               /\ Attr(dom, top[1], "id") = "readability-page-1"
               /\ Attr(dom, top[1], "class") = "page"

\* C5: parse() terminates: every call reaches its return or its throw, and
\* grabArticle records at most four attempts on the way.
C5_Terminates ==
    /\ <>(pc \in {"done", "thrown"})
    /\ [](Len(attempts) <= 4)

\* a parse() that ran all four passes and returned
C5_Witness ==
    /\ pc = "done"
    /\ Len(attempts) = 4
    /\ flags = {}

\* the step of grabArticle that gives up retrying: every flag is off and the
\* article is still shorter than charThreshold
GivesUp ==
    /\ pc = "checkLength"
    /\ pc' \in {"finish", "fixRelativeUris"}
    /\ attempts' # attempts

\* the attempts in the order of their passes, the one of the current pass last
Recorded ==
    Append(attempts, [articleContent |-> loc.articleContent,
                      textLength |-> Len(getInnerText(dom, loc.articleContent, TRUE))])

\* the earliest of the attempts of greatest text length
Longest(as) ==
    CHOOSE i \in 1..Len(as) :
        \A j \in 1..Len(as) :
            \/ as[j].textLength < as[i].textLength
            \/ as[j].textLength = as[i].textLength /\ i <= j

\* C6: when the four passes all end shorter than charThreshold, grabArticle
\* returns the article of the attempt of greatest text length among exactly
\* four recorded attempts, the earliest pass among equal lengths, and returns
\* null, content and textContent then being null, iff that length is 0.
C6_LongestAttempt ==
    /\ [][GivesUp =>
            LET best == Recorded[Longest(Recorded)]
            IN  /\ Len(Recorded) = 4
                /\ \A i \in 1..4 : Recorded[i].textLength < opts.charThreshold
                /\ IF best.textLength = 0
                   THEN loc'.articleContent = 0 /\ pc' = "finish"
                   ELSE /\ loc'.articleContent = best.articleContent
                        /\ pc' = "fixRelativeUris"]_vars
    /\ []((pc = "done" /\ Len(attempts) = 4)
             => /\ loc.articleContent = 0 <=> attempts[1].textLength = 0
                /\ loc.articleContent = 0
                      => result.content = Null /\ result.textContent = Null)

\* the fallback has chosen between two attempts of the same, greatest, length
C6_Witness ==
    /\ pc = "fixRelativeUris"
    /\ Len(attempts) = 4
    /\ attempts[1].textLength = attempts[2].textLength
    /\ attempts[1].textLength > attempts[3].textLength
    /\ loc.articleContent = attempts[1].articleContent

\* C7: no element of the returned article carries a presentational attribute,
\* inside an <svg> or not, and only table, th, td, hr and pre carry width or height.
C7_NoPresentationalAttributes ==
    \A e \in Returned :
        \A a \in dom[e].attribs :
            /\ a[1] \notin PRESENTATIONAL_ATTRIBUTES
            /\ a[1] \in {"width", "height"}
                  => dom[e].tag \in DEPRECATED_SIZE_ATTRIBUTE_ELEMS

\* C8: once prepArticle has finished, every <p> of the article without an
\* img, embed, object or iframe under it has a non-empty trimmed inner text.
C8_ParagraphsHaveText ==
    pc = "paging"
        => \A p \in Range(Find(dom, loc.articleContent, {"p"})) :
               Find(dom, p, {"img", "embed", "object", "iframe"}) = <<>>
                   => getInnerText(dom, p, FALSE) # <<>>

\* the <iframe> under a whose src matches allowedVideoRegex
AllowedVideos(d, a) ==
    {f \in Range(Find(d, a, {"iframe"})) :
        HasAttr(d, f, "src") /\ allowedVideoRegex(Attr(d, f, "src"))}

\* a step of prepArticle
InPrepArticle ==
    \/ pc = "siblings" /\ pc' = "cleanMatchedNodes"
    \/ pc \in {"cleanMatchedNodes", "prepArticleEnd"}

\* C9: no step of prepArticle removes from the article an <iframe> whose src
\* matches allowedVideoRegex.
C9_AllowedVideoKept ==
    [][InPrepArticle =>
           AllowedVideos(dom, loc.articleContent)
               \subseteq AllowedVideos(dom', loc.articleContent)]_vars

-----------------------------------------------------------------------------
(* Properties of the metadata                                              *)

MetadataFields == {"title", "byline", "excerpt", "siteName", "publishedTime"}

\* the keys of the value map getArticleMetadata asks for a field, in its order
FieldSources(f) ==
    CASE f = "title" ->
             <<"dc:title", "dcterm:title", "og:title", "weibo:article:title",
               "weibo:webpage:title", "title", "twitter:title", "parsely-title">>
      [] f = "byline" -> <<"dc:creator", "dcterm:creator", "author", "parsely-author">>
      [] f = "excerpt" ->
             <<"dc:description", "dcterm:description", "og:description",
               "weibo:article:description", "weibo:webpage:description",
               "description", "twitter:description">>
      [] f = "siteName" -> <<"og:site_name">>
      [] f = "publishedTime" -> <<"article:published_time", "parsely-pub-date">>

\* the keys of a field when the one order dc:, dcterm:, og:, weibo:, bare,
\* twitter:, parsely- is applied to every field alike
UniformSources(f) ==
    CASE f = "title" -> FieldSources("title")
      [] f = "byline" ->
             <<"dc:creator", "dcterm:creator", "og:author", "author",
               "twitter:creator", "parsely-author">>
      [] f = "excerpt" -> Append(FieldSources("excerpt"), "parsely-description")
      [] f = "siteName" -> <<"og:site_name", "site_name", "twitter:site_name">>
      [] f = "publishedTime" -> <<"og:published_time", "parsely-pub-date">>

\* what JSON-LD gives for a field, Null when JSON-LD is disabled
JsonLdValue(f) ==
    LET jsonLd == getJSONLD(dom)
    IN  IF opts.disableJSONLD THEN Null
        ELSE IF f = "publishedTime" THEN jsonLd.datePublished
        ELSE jsonLd[f]

\* the values of the sources of a field, JSON-LD first and then the keys
ValuesOf(f, keys) ==
    <<JsonLdValue(f)>> \o [i \in 1..Len(keys) |-> MetaValue(dom, keys[i])]

\* r is the first value of vs that is not empty, if there is one
TakesFirst(vs, r) ==
    \A i \in 1..Len(vs) :
        (vs[i] # Null /\ \A j \in 1..(i - 1) : vs[j] = Null)
            => r = unescapeHtmlEntities(vs[i])

\* the <head> is as it was when parse() read the metadata
HeadUntouched == pc = "prepDocument" \/ (pc \in {"finish", "done"} /\ ~opts.extraction)

\* the fields of the record parse() returns are those of the metadata
ReturnsMetadata ==
    pc = "done"
        => /\ result.title = metadata.title
           /\ metadata.byline # Null => result.byline = metadata.byline
           /\ metadata.excerpt # Null => result.excerpt = metadata.excerpt
           /\ result.siteName = metadata.siteName
           /\ result.publishedTime = metadata.publishedTime

\* C11 (as amended): each field takes the first non-empty value of its own
\* list of sources: JSON-LD (unless disableJSONLD), then for the title dc:,
\* dcterm:, og:, weibo:, bare, twitter:, parsely-; for the byline dc:creator,
\* dcterm:creator, author, parsely-author; for the excerpt dc:, dcterm:, og:,
\* weibo:, bare, twitter:; for the site name og:site_name; for the published
\* time article:published_time, parsely-pub-date. With disableJSONLD no
\* JSON-LD value is used.
C11_FieldOrder ==
    /\ HeadUntouched
           => \A f \in MetadataFields :
                  /\ TakesFirst(ValuesOf(f, FieldSources(f)), metadata[f])
                  /\ (f # "title" /\ \A i \in 1..(Len(FieldSources(f)) + 1) :
                                         ValuesOf(f, FieldSources(f))[i] = Null)
                         => metadata[f] = Null
    /\ ReturnsMetadata

\* C11 (as stated): every field takes the first non-empty value in the one
\* order JSON-LD, dc:, dcterm:, og:, weibo:, bare name, twitter:, parsely-.
C11_UniformOrder ==
    /\ HeadUntouched
           => \A f \in MetadataFields :
                  TakesFirst(ValuesOf(f, UniformSources(f)), metadata[f])
    /\ ReturnsMetadata

\* JSON-LD is disabled, the document gives a description in JSON-LD, as
\* og:description, as a bare description and as twitter:description, and the
\* excerpt returned is the one of og:description
C11_Witness ==
    /\ pc = "done"
    /\ opts.disableJSONLD
    /\ getJSONLD(dom).excerpt # Null
    /\ MetaValue(dom, "og:description") = <<111, 103>>
    /\ MetaValue(dom, "description") # Null
    /\ MetaValue(dom, "twitter:description") # Null
    /\ result.excerpt = <<111, 103>>

-----------------------------------------------------------------------------
(* Properties of simplifyDivs                                              *)

\* the <div> the first loop of grabArticle is at, 0 when it is not at a <div>
DivAtCursor ==
    IF pc = "walk" /\ loc.node # 0 /\ dom[loc.node].tag = "div" THEN loc.node ELSE 0

\* the children ks[i..j] are all phrasing content
AllPhrasing(d, ks, i, j) == \A m \in i..j : isPhrasingContent(d, ks[m])

\* ks[i] begins a run: it is phrasing and not white space, and the phrasing
\* children that come just before it are all white space
BeginsRun(d, ks, i) ==
    /\ isPhrasingContent(d, ks[i])
    /\ ~isWhitespace(d, ks[i])
    /\ \A j \in 1..(i - 1) : AllPhrasing(d, ks, j, i - 1) => isWhitespace(d, ks[j])

\* the index of the last child of the run that begins at ks[i]
RunEnd(d, ks, i) ==
    CHOOSE e \in i..Len(ks) :
        /\ AllPhrasing(d, ks, i, e)
        /\ e < Len(ks) => ~isPhrasingContent(d, ks[e + 1])

\* the relation between the tree d, a <div> node of it, and the tree d2 that
\* simplifyDivs leaves
WrapsRuns(d, node, d2) ==
    LET ks  == d[node].kids
        ks2 == d2[node].kids
        begins == {i \in 1..Len(ks) : BeginsRun(d, ks, i)}
        inRun(k) == \E i \in begins : \E m \in i..RunEnd(d, ks, i) : ks[m] = k
        isNew(k) == k > Len(d)
    IN  \* one new <p> for each run, holding the nodes of the run in their order
        /\ Len(d2) = Len(d) + Cardinality(begins)
        /\ \A i \in begins :
               \E q \in Range(ks2) :
                   /\ isNew(q)
                   /\ d2[q].tag = "p"
                   /\ d2[q].attribs = {}
                   /\ d2[q].kids = SubSeq(ks, i, RunEnd(d, ks, i))
                   /\ \A m \in i..RunEnd(d, ks, i) : d2[ks[m]].up = q
        /\ Cardinality({q \in Range(ks2) : isNew(q)}) = Cardinality(begins)
        \* the other children, the leading white space among them, stay in
        \* their order, and each <p> is where its run was
        /\ SelectSeq(ks2, LAMBDA k : ~isNew(k)) = SelectSeq(ks, LAMBDA k : ~inRun(k))
        /\ Flatten([i \in 1..Len(ks2) |->
                        IF isNew(ks2[i]) THEN d2[ks2[i]].kids ELSE <<ks2[i]>>]) = ks
        \* nothing else of the tree changes
        /\ \A m \in 1..Len(d) :
               IF m = node THEN [d2[m] EXCEPT !.kids = ks] = d[m]
               ELSE IF inRun(m) THEN [d2[m] EXCEPT !.up = node] = d[m]
               ELSE d2[m] = d[m]
        /\ ks = <<>> => d2 = d

\* C12: simplifyDivs turns every maximal run of consecutive phrasing children
\* of the <div> that begins at a node that is not white space into exactly
\* one new <p> holding those nodes in their order; white-space phrasing nodes
\* before a run open no <p> and stay where they are; the other children stay
\* children of the <div> in their order; a <div> without children is unchanged.
C12_SimplifyDivsWrapsRuns ==
    DivAtCursor # 0 => WrapsRuns(dom, DivAtCursor, simplifyDivs(dom, DivAtCursor))

\* simplifyDivs has returned on a <div> that began with a white-space text:
\* the text is still its first child, a new <p> of three nodes follows, then
\* the block that ended the run and a second <p>
C12_Witness ==
    /\ pc = "simplifyDivs"
    /\ loc.childNode = 0
    /\ LET ks == dom[loc.node].kids
       IN  /\ Len(ks) = 4
           /\ IsText(dom, ks[1]) /\ whitespace(dom[ks[1]].data)
           /\ dom[ks[2]].tag = "p" /\ Len(dom[ks[2]].kids) = 3
           /\ dom[ks[3]].tag = "div"
           /\ dom[ks[4]].tag = "p" /\ Len(dom[ks[4]].kids) = 1

-----------------------------------------------------------------------------
(* Properties of the log                                                   *)

\* C13: a parse() with debug set, on a copy of the document an earlier parse()
\* without debug was given and with the same other options, ends the same way
\* (returns or throws), with the same record or error, and leaves the tree in
\* the same state; and without debug nothing is written to the console.
C13_DebugChangesNothing ==
    /\ (pc \in {"done", "thrown"} /\ earlier.ended # "")
           => /\ opts.debug
              /\ pc = earlier.ended
              /\ result = earlier.result
              /\ thrown = earlier.thrown
              /\ dom = earlier.dom
    /\ ~opts.debug => console = <<>>

\* the second parse() has returned an article, and has logged on its way
C13_Witness ==
    /\ pc = "done"
    /\ earlier.ended = "done"
    /\ opts.debug
    /\ result.content # Null
    /\ \E i \in 1..Len(console) : console[i] = "Removing header"
    /\ \E i \in 1..Len(console) : console[i] = "SyntaxError"

-----------------------------------------------------------------------------
(* Properties of parsing the returned content again                        *)

\* every run of whitespace is one space, and none at the ends
RECURSIVE CollapseIn(_, _, _)
CollapseIn(t, lo, hi) ==
    IF lo > hi THEN <<>>
    ELSE IF lo < hi
    THEN LET mid == (lo + hi) \div 2
         IN  CollapseIn(t, lo, mid) \o CollapseIn(t, mid + 1, hi)
    ELSE IF t[lo] \notin WS THEN <<t[lo]>>
    ELSE IF lo > 1 /\ t[lo - 1] \in WS THEN <<>>
    ELSE <<32>>

Collapse(t) == CollapseIn(t \o <<>>, 1, Len(t))

WhitespaceNormalized(t) == Collapse(Trim(t))

\* C14: when parse() of the content an earlier parse() returned has itself
\* returned, with the same options, its textContent is, after whitespace
\* normalization, the textContent of the earlier parse()
C14_ReparseSameText ==
    (pc = "done" /\ earlier.ended = "done")
        => WhitespaceNormalized(result.textContent)
               = WhitespaceNormalized(earlier.result.textContent)

-----------------------------------------------------------------------------
(* Properties of the retries                                               *)

ClearOrder == <<FLAG_STRIP_UNLIKELYS, FLAG_WEIGHT_CLASSES, FLAG_CLEAN_CONDITIONALLY>>

\* the flags that are set once the first k of the order are cleared
SetAfter(k) == {ClearOrder[i] : i \in (k + 1)..3}

\* the pass at its end has an article text shorter than charThreshold
ShortPass ==
    /\ pc = "checkLength"
    /\ Len(getInnerText(dom, loc.articleContent, TRUE)) < opts.charThreshold

LongPass ==
    /\ pc = "checkLength"
    /\ Len(getInnerText(dom, loc.articleContent, TRUE)) >= opts.charThreshold

\* one step of parse() as the retries see it
RetryStep ==
    /\ flags' \subseteq flags
    /\ flags' # flags => ShortPass
    /\ \A k \in 0..2 : (ShortPass /\ flags = SetAfter(k))
                            => flags' = SetAfter(k + 1) /\ pc' = "passStart"
    /\ (ShortPass /\ flags = {}) => pc' \in {"fixRelativeUris", "finish"}
    /\ LongPass => flags' = flags /\ pc' = "fixRelativeUris"
    /\ (pc' = "passStart" /\ pc # "replaceBrs") => flags' # flags

\* C15: a pass whose article text is shorter than charThreshold clears exactly
\* one flag, STRIP_UNLIKELYS first, then WEIGHT_CLASSES, then
\* CLEAN_CONDITIONALLY; no step sets a flag; a pass that reaches charThreshold
\* leaves the flags alone and goes on to return; a pass only starts after
\* the first one when a flag has been cleared, so the k-th pass runs with the
\* first k - 1 flags cleared and there are at most four passes
C15_OneFlagPerShortPass ==
    /\ [](\E k \in 0..3 : flags = SetAfter(k) /\ (pc = "passStart" => Len(attempts) = k))
    /\ [][RetryStep]_vars

\* the fourth pass has ended short: all three flags are cleared, four attempts are kept
C15_Witness ==
    /\ pc = "done"
    /\ flags = {}
    /\ Len(attempts) = 4
    /\ result.content # Null

-----------------------------------------------------------------------------
(* Properties of the start of a pass                                       *)

\* the tree under <body> is the one the first pass started from
BodyRestored == Literal(dom, Body(dom)).k = pageCache.k

\* no node of the document carries a content score or a data-table mark
NothingMarked ==
    \A n \in Range(<<Root>> \o Desc(dom, Root)) :
        dom[n].score = <<>> /\ dom[n].dataTable = "undefined"

\* C16: when a pass of grabArticle starts, the tree under <body> is the one
\* the first pass started from, no byline is recorded, and no node of the
\* document carries a content score or a data-table mark
C16_CleanSlate ==
    pc = "passStart" => BodyRestored /\ articleByline = Null /\ NothingMarked

-----------------------------------------------------------------------------
(* Properties of the traversal of a pass                                   *)

\* the elements of the document, in document order
InOrder(d) == FindAll(d, Root)

\* the elements the traversal has behind it when its cursor is c: those before
\* c in document order, all of them once the cursor is null
Behind(d, c) ==
    IF c = 0 THEN InOrder(d) ELSE SubSeq(InOrder(d), 1, IndexOf(c, InOrder(d)) - 1)

\* the first element in document order after the subtree of n, 0 when there is none
AfterSubtree(d, n) ==
    LET order == InOrder(d)
        later == {i \in 1..Len(order) :
                     i > IndexOf(n, order) /\ ~InSeq(order[i], Desc(d, n))}
    IN  IF later = {} THEN 0 ELSE order[CHOOSE i \in later : \A j \in later : i <= j]

InTraversal == pc \in {"walk", "simplifyDivs"}

NoDuplicates(s) == \A i, j \in 1..Len(s) : s[i] = s[j] => i = j

CursorAttached ==
    (InTraversal /\ loc.node # 0) => InSeq(loc.node, InOrder(dom))

\* one step of the traversal: the node under the cursor is removed, or replaced
\* by its single <p>, or kept
TraversalStep ==
    (InTraversal /\ pc' \in {"walk", "simplifyDivs"} /\ loc.node # 0) =>
        LET node == loc.node
            staying == InSeq(node, InOrder(dom'))
            taken == IF Parent(dom, node) = 0 THEN 0
                     ELSE dom'[Parent(dom, node)].kids[IndexOf(node, dom[Parent(dom, node)].kids)]
            replaced == ~staying /\ Len(dom'[Parent(dom, node)].kids) = Len(dom[Parent(dom, node)].kids)
        IN  IF pc' = "simplifyDivs"
            THEN loc'.node = node /\ Behind(dom', node) = Behind(dom, node)
            ELSE IF staying
            THEN Behind(dom', loc'.node) = Behind(dom, node) \o <<node>>
            ELSE IF replaced
            THEN /\ dom[taken].tag = "p" /\ Parent(dom, taken) = node
                 /\ Behind(dom', loc'.node) = Behind(dom, node) \o <<taken>>
                 /\ InSeq(taken, loc'.elementsToScore)
            ELSE /\ loc'.node = AfterSubtree(dom, node)
                 /\ Behind(dom', loc'.node) = Behind(dom, node)
                 /\ \A k \in Range(Desc(dom, node)) : ~InSeq(k, InOrder(dom'))

\* C17: while a pass traverses the document the cursor is an element of the
\* document; a step puts behind the cursor exactly the node it was on, or the
\* <p> that replaced it, or nothing when the node was removed, and then the
\* cursor is the first element after the removed subtree; the elements behind
\* the cursor are never changed, so no element is visited twice and none of a
\* removed subtree is visited; no element is collected for scoring twice
C17_CursorMovesForward ==
    /\ [](CursorAttached /\ (InTraversal => NoDuplicates(loc.elementsToScore)))
    /\ [][TraversalStep]_vars

\* the traversal goes on after a byline was removed and a <div> was replaced by its <p>
C17_Witness ==
    /\ pc = "walk"
    /\ loc.node # 0
    /\ articleByline # Null
    /\ \E n \in 1..Len(dom) :
           /\ dom[n].tag = "div" /\ Parent(dom, n) = 0 /\ dom[n].kids = <<>>
           /\ Attr(dom, n, "class") = "share"
    /\ \E e \in Range(loc.elementsToScore) : TextOf(dom, e) = TShort

-----------------------------------------------------------------------------
(* Properties of the loop over the siblings                                *)

\* the element children of the parent of the top candidate
UnderParent == ElemKids(dom, loc.parentOfTopCandidate)

\* the children the loop has looked at and left under the parent, and those
\* it has not looked at yet
LeftBehind == SubSeq(loc.siblings, 1, loc.s)

NotLookedAt == SubSeq(loc.siblings, loc.s + 1, loc.sl)

Appended == ElemKids(dom, loc.articleContent)

SiblingLoopState ==
    pc = "siblings" =>
        /\ loc.parentOfTopCandidate # 0
        /\ loc.siblings = UnderParent
        /\ loc.sl = Len(loc.siblings)
        /\ loc.s \in 0..loc.sl
        /\ InSeq(loc.topCandidate, NotLookedAt) \/ InSeq(loc.topCandidate, Appended)

\* one iteration: the first child not looked at yet is looked at, and goes to
\* the end of the article or stays where it is
SiblingLoopStep ==
    (pc = "siblings" /\ pc' = "siblings") =>
        /\ NotLookedAt # <<>>
        /\ NotLookedAt' = Tail(NotLookedAt)
        /\ \/ Appended' = Append(Appended, Head(NotLookedAt)) /\ LeftBehind' = LeftBehind
           \/ Appended' = Appended /\ LeftBehind' = Append(LeftBehind, Head(NotLookedAt))
        /\ Head(NotLookedAt) = loc.topCandidate => Appended' # Appended

\* C18: the loop over the element children of the parent of the top candidate
\* looks at each of them once, in document order: an iteration takes the first
\* child not looked at yet and either appends it to the end of the article or
\* leaves it after the children already left under the parent; the top
\* candidate is appended; the loop ends when no child is left to look at
C18_SiblingsOnceInOrder ==
    /\ [](SiblingLoopState)
    /\ [][SiblingLoopStep]_vars
    /\ [][(pc = "siblings" /\ pc' # "siblings")
              => NotLookedAt = <<>> /\ InSeq(loc.topCandidate, Appended)]_vars

\* the loop has ended with two siblings appended and one left under the parent
C18_Witness ==
    /\ pc = "siblings"
    /\ loc.s = loc.sl
    /\ Len(Appended) >= 2
    /\ LeftBehind # <<>>
    /\ Appended[1] # loc.topCandidate

-----------------------------------------------------------------------------
(* Properties of the list of top candidates                                *)

\* the candidates whose score has been scaled by their link density so far
Processed == SubSeq(loc.candidates, 1, loc.c - 1)

\* x is ahead of y: its score is higher, or the same and it was processed earlier
Ahead(x, y) ==
    \/ FLess(dom[y].score, dom[x].score)
    \/ /\ dom[y].score = dom[x].score
       /\ IndexOf(x, loc.candidates) < IndexOf(y, loc.candidates)

TopCandidatesState ==
    LET top == loc.topCandidates
    IN  /\ Len(top) = Min(opts.nbTopCandidates, Len(Processed))
        /\ Range(top) \subseteq Range(Processed)
        /\ \A i, j \in 1..Len(top) :
               i < j => FLeq(dom[top[j]].score, dom[top[i]].score) /\ Ahead(top[i], top[j])
        /\ \A x \in Range(Processed) \ Range(top) : \A y \in Range(top) : Ahead(y, x)
        /\ (loc.c > Len(loc.candidates) /\ loc.candidates # <<>>)
               => \A x \in Range(loc.candidates) : FLeq(dom[x].score, dom[top[1]].score)

\* C19: while the candidates are processed the list of top candidates has
\* min(nbTopCandidates, number processed) entries, all processed candidates,
\* in non-increasing order of the scaled score; every entry is ahead of every
\* processed candidate that is not in the list, and of the entries after it,
\* an earlier candidate being ahead of a later one of the same score; after
\* the last candidate no candidate has a higher scaled score than the first entry
C19_TopCandidatesSorted == pc = "topCandidates" => TopCandidatesState

\* all candidates are processed, the list is full and has left one out, and
\* two of the candidates have the same scaled score
C19_Witness ==
    /\ pc = "topCandidates"
    /\ loc.c > Len(loc.candidates)
    /\ Len(loc.candidates) > opts.nbTopCandidates
    /\ Len(loc.topCandidates) = opts.nbTopCandidates
    /\ \E x, y \in Range(loc.candidates) : x # y /\ dom[x].score = dom[y].score

-----------------------------------------------------------------------------
(* Properties of the share-element step                                    *)

\* the search of cleanMatchedNodes for the direct child it was called with is
\* on a proper descendant of that child
SearchInsideChild ==
    (pc = "cleanMatchedNodes" /\ loc.children # <<>> /\ loc.node # 0)
        => InSeq(loc.node, Desc(dom, loc.children[1]))

\* a step of the share-element step leaves the direct children of the article alone
DirectChildrenStay ==
    (pc = "cleanMatchedNodes" /\ pc' = "cleanMatchedNodes")
        => ElemKids(dom', loc.articleContent) = ElemKids(dom, loc.articleContent)

\* C20: the share-element step of prepArticle removes no direct child of the
\* article, and the search started from one direct child only looks at the
\* proper descendants of that child
C20_ShareStepStaysInside ==
    /\ [][DirectChildrenStay]_vars
    /\ []SearchInsideChild

-----------------------------------------------------------------------------
(* Properties of the conditional cleaning                                  *)

\* prepArticle is about to clean the tables, the lists and the <div>s conditionally
AboutToCleanConditionally ==
    /\ pc = "cleanMatchedNodes"
    /\ loc.children = <<>>
    /\ flagIsActive(flags, FLAG_CLEAN_CONDITIONALLY)

\* C21: when the conditional cleaning is about to run, its filter keeps every
\* <table>, <ul> and <div> of the article whose inner text has more than ten commas
C21_ManyCommasKept ==
    AboutToCleanConditionally =>
        \A node \in Range(Find(dom, loc.articleContent, {"table", "ul", "div"})) :
            CountIn(getInnerText(dom, node, TRUE), {44}) > 10
                => ~ShouldCleanConditionally(dom, node, dom[node].tag, flags, opts)

-----------------------------------------------------------------------------
(* Properties of the removal of unlikely candidates                        *)

\* the step removes the node under the cursor of the traversal, and neither
\* its visibility, nor a byline, nor the title, nor its role, nor its being
\* empty is the ground: the ground is its class and id
RemovedAsUnlikely ==
    /\ pc = "walk"
    /\ loc.node # 0
    /\ ~InSeq(loc.node, InOrder(dom'))
    /\ isProbablyVisible(dom, loc.node)
    /\ ~checkByline(dom, loc.node, articleByline)
    /\ ~(loc.shouldRemoveTitleHeader /\ headerDuplicatesTitle(dom, loc.node, articleTitle))
    /\ Attr(dom, loc.node, "role") \notin UNLIKELY_ROLES
    /\ ~(dom[loc.node].tag \in EMPTY_TAGS /\ isElementWithoutContent(dom, loc.node))

\* C22: a node that the traversal removes for its class and id has no <table>
\* and no <code> among its ancestors, is not the <body> and not an <a>, and its
\* class and id do not match the maybe-candidate pattern
C22_UnlikelyNotUnderTable ==
    [][RemovedAsUnlikely =>
           /\ flagIsActive(flags, FLAG_STRIP_UNLIKELYS)
           /\ \A a \in Range(Ancestors(dom, loc.node)) : dom[a].tag \notin {"table", "code"}
           /\ dom[loc.node].tag \notin {"body", "a"}
           /\ ~\E w \in MatchString(dom, loc.node) : okMaybeItsACandidate(w)]_vars

-----------------------------------------------------------------------------
(* Properties of hasAncestorTag                                            *)

\* the largest positive maxDepth the property below is checked with
MaxDepth == 3

\* one of the nearest k ancestors of n is an element with the tag
AmongNearest(d, n, tagName, k) ==
    LET as == Ancestors(d, n)
    IN  \E i \in 1..Len(as) : i <= k /\ d[as[i]].tag = tagName

\* C23: for the node under the cursor of the traversal, hasAncestorTag with a
\* positive maxDepth is true exactly when one of its nearest maxDepth ancestors
\* has the tag, and with a negative maxDepth exactly when any ancestor has it
C23_NearestMaxDepthAncestors ==
    (pc = "walk" /\ loc.node # 0) =>
        \A tagName \in {"table", "tbody", "div", "body"} :
            /\ \A maxDepth \in 1..MaxDepth :
                   hasAncestorTag(dom, loc.node, tagName, maxDepth, Nodes(dom))
                       <=> AmongNearest(dom, loc.node, tagName, maxDepth)
            /\ hasAncestorTag(dom, loc.node, tagName, -1, Nodes(dom))
                   <=> AmongNearest(dom, loc.node, tagName, Len(dom))

-----------------------------------------------------------------------------
(* Properties of isProbablyVisible                                         *)

\* the element carries one of the marks of a hidden element
MarkedHidden(d, n) ==
    \/ <<"aria-modal", "true">> \in d[n].attribs
    \/ <<"role", "dialog">> \in d[n].attribs
    \/ \E p \in d[n].attribs : p[1] = "hidden"
    \/ <<"style", "display:none">> \in d[n].attribs
    \/ <<"style", "visibility:hidden">> \in d[n].attribs
    \/ /\ <<"aria-hidden", "true">> \in d[n].attribs
       /\ <<"class", "fallback-image">> \notin d[n].attribs

\* C24: for the node under the cursor of the traversal, isProbablyVisible is
\* false exactly when the node carries one of the marks of a hidden element,
\* and the step then takes the node and all that is under it out of the tree
C24_HiddenIffMarked ==
    [][(pc = "walk" /\ loc.node # 0) =>
           /\ isProbablyVisible(dom, loc.node) <=> ~MarkedHidden(dom, loc.node)
           /\ MarkedHidden(dom, loc.node) =>
                  \A n \in Range(FindAll(dom, loc.node)) \cup {loc.node} :
                      ~InSeq(n, InOrder(dom'))]_vars

\* a paragraph with a bare hidden has been taken out of the tree
C24_Witness ==
    /\ pc = "walk"
    /\ \E n \in Nodes(dom) :
           /\ <<"hidden", "">> \in dom[n].attribs
           /\ dom[n].up = 0
           /\ ~InSeq(n, InOrder(dom))
           /\ \E k \in Range(dom[n].kids) : ~InSeq(k, InOrder(dom))

-----------------------------------------------------------------------------
(* Properties of simplifyDivs                                              *)

\* simplifyDivs is at a child that is not phrasing content while a <p> is open
RunEnds ==
    /\ pc = "simplifyDivs"
    /\ loc.childNode # 0
    /\ loc.p # 0
    /\ ~isPhrasingContent(dom, loc.childNode)

\* the last child of the element n is white space
EndsWithWhitespace(d, n) ==
    /\ d[n].kids # <<>>
    /\ isWhitespace(d, d[n].kids[Len(d[n].kids)])

\* C25: the iteration of simplifyDivs that ends a run of phrasing children
\* closes the <p>, goes on to the next child, and leaves the <p> without white
\* space at its end
C25_ClosedWithoutTrailingWhitespace ==
    [][RunEnds =>
           /\ loc'.p = 0
           /\ loc'.childNode = NextSibling(dom, loc.childNode)
           /\ ~EndsWithWhitespace(dom', loc.p)]_vars

-----------------------------------------------------------------------------
(* Properties of replaceBrs                                                *)

\* n is a <br> that is followed, white space apart, by a <br> sibling
BrThenBr(d, n) ==
    /\ d[n].tag = "br"
    /\ LET next == nextNode(d, NextSibling(d, n))
       IN  next # 0 /\ d[next].tag = "br"

\* replaceBrs is at a <br>
AtBr == pc = "replaceBrs" /\ loc.brs # <<>>

\* the <p> made for the chain that starts at br stands where br stood, is the
\* only new node, holds later siblings of br that are phrasing content, ends
\* where the siblings end, at a node that is not phrasing content or at the
\* next chain, does not end with white space or a <br>, and is not in a <p>
ChainReplaced(d, e, br) ==
    LET p == Created(d)
        parentNode == Parent(d, br)
        next == NextSibling(e, p)
    IN  /\ Len(e) = Len(d) + 1
        /\ e[p].tag = "p"
        /\ Parent(e, br) = 0
        /\ Parent(e, p) = parentNode
        /\ IndexOf(p, e[parentNode].kids) = IndexOf(br, d[parentNode].kids)
        /\ \A k \in Range(e[p].kids) :
               /\ Parent(d, k) = parentNode
               /\ IndexOf(k, d[parentNode].kids) > IndexOf(br, d[parentNode].kids)
               /\ isPhrasingContent(e, k)
               /\ ~BrThenBr(e, k)
        /\ next = 0 \/ ~isPhrasingContent(e, next) \/ BrThenBr(e, next)
        /\ e[p].kids = <<>> \/ ~isWhitespace(e, e[p].kids[Len(e[p].kids)])
        /\ e[parentNode].tag # "p"

\* C26: each step of replaceBrs at a <br> that starts a chain replaces the chain
\* by one new <p> as described above and leaves the tree alone at any other
\* <br>, and once replaceBrs is through no <br> of the tree is followed, white
\* space apart, by another <br>
C26_ChainsReplaced ==
    [][/\ AtBr =>
              IF BrThenBr(dom, Head(loc.brs))
              THEN ChainReplaced(dom, dom', Head(loc.brs))
              ELSE dom' = dom
       /\ (pc = "replaceBrs" /\ loc.brs = <<>>) =>
              \A n \in Range(InOrder(dom)) : ~BrThenBr(dom, n)]_vars

\* replaceBrs is through: a <p> of the tree holds one node, a <br> has been
\* taken out of the tree, and a single <br> is still in it
C26_Witness ==
    /\ pc = "replaceBrs"
    /\ loc.brs = <<>>
    /\ \E p \in Range(InOrder(dom)) :
           /\ dom[p].tag = "p"
           /\ Len(dom[p].kids) = 1
           /\ \E n \in Nodes(dom) : dom[n].tag = "br" /\ dom[n].up = 0
    /\ \E n \in Range(InOrder(dom)) : dom[n].tag = "br"

-----------------------------------------------------------------------------
(* Properties of simplifyNestedElements                                    *)

\* the characters of the text under n that are not white space, in order
InkOf(d, n) == SelectSeq(TextOf(d, n), LAMBDA c : c \notin WS)

\* the elements of the article whose id starts with 'readability'
ReadabilityElements(d, articleContent) ==
    {n \in Range(FindAll(d, articleContent)) \cup {articleContent} :
        StartsWithReadability(Attr(d, n, "id"))}

\* C27: an iteration of simplifyNestedElements leaves the non-whitespace text
\* of the article as it is, and leaves every element whose id starts with
\* 'readability' in the article
C27_TextKept ==
    [][(pc = "simplifyNestedElements" /\ loc.node # 0) =>
           /\ InkOf(dom', loc.articleContent) = InkOf(dom, loc.articleContent)
           /\ ReadabilityElements(dom, loc.articleContent)
                  \subseteq ReadabilityElements(dom', loc.articleContent)]_vars

-----------------------------------------------------------------------------
(* Properties of the scored elements                                       *)

\* the top candidate is the <div> that grabArticle made for want of one
Synthetic(n) == loc.neededToCreateTopCandidate /\ n = loc.topCandidate

\* C28: an element of the tree that has a contentScore is under the <body>, or
\* is the <div> made to be the top candidate
C28_ScoredUnderBody ==
    \A n \in Range(InOrder(dom)) :
        dom[n].score # <<>> =>
            \/ \E a \in Range(Ancestors(dom, n)) : dom[a].tag = "body"
            \/ Synthetic(n)

-----------------------------------------------------------------------------
(* Properties of textSimilarity                                            *)

\* the traversal is at a heading 'Foo Wins' of the article 'Breaking News: Foo Wins'
AtFooWins ==
    /\ pc = "walk"
    /\ loc.node # 0
    /\ dom[loc.node].tag = "h1"
    /\ articleTitle = TBreakingNews
    /\ getInnerText(dom, loc.node, FALSE) = TFooWins

\* C29: textSimilarity of the title 'Breaking News: Foo Wins' and the heading
\* 'Foo Wins' is more than 0.5 and less than 0.65
C29_SimilarityAboutPoint57 ==
    AtFooWins =>
        LET similarity == textSimilarity(articleTitle, getInnerText(dom, loc.node, FALSE))
        IN  FLess(<<1, 2>>, similarity) /\ FLess(similarity, <<13, 20>>)

-----------------------------------------------------------------------------
(* Properties of unescapeHtmlEntities                                      *)

\* the code point a numeric reference stands for: U+FFFD for 0, for a
\* surrogate and for a number above 0x10FFFF
CodePointOf(num) ==
    IF num = 0 \/ num > 1114111 \/ (num >= 55296 /\ num <= 57343) THEN 65533 ELSE num

\* t with every numeric reference &#N; or &#xH;, of any number of digits,
\* replaced by its code point
RECURSIVE Dereferenced(_)
Dereferenced(t) ==
    IF t = <<>> THEN <<>>
    ELSE LET starts == Len(t) >= 4 /\ t[1] = 38 /\ t[2] = 35
             hex == IF starts /\ t[3] \in {120, 88}
                    THEN {k \in 1..Len(t) :
                             /\ Len(t) >= 4 + k
                             /\ \A j \in 1..k : DigitValue(t[3 + j]) < 16
                             /\ t[4 + k] = 59}
                    ELSE {}
             dec == IF starts
                    THEN {k \in 1..Len(t) :
                             /\ Len(t) >= 3 + k
                             /\ \A j \in 1..k : DigitValue(t[2 + j]) < 10
                             /\ t[3 + k] = 59}
                    ELSE {}
         IN  IF hex # {}
             THEN LET k == CHOOSE k \in hex : TRUE
                  IN  <<CodePointOf(parseInt(SubSeq(t, 4, 3 + k), 16))>>
                      \o Dereferenced(SubSeq(t, 5 + k, Len(t)))
             ELSE IF dec # {}
             THEN LET k == CHOOSE k \in dec : TRUE
                  IN  <<CodePointOf(parseInt(SubSeq(t, 3, 2 + k), 10))>>
                      \o Dereferenced(SubSeq(t, 4 + k, Len(t)))
             ELSE <<Head(t)>> \o Dereferenced(Tail(t))

\* C30: the title of the metadata is the title of the document with its named
\* references &lt; &gt; &amp; &quot; &apos; replaced by their characters and
\* every numeric reference replaced by its code point, U+FFFD for an invalid
\* one; a document without a title has an empty title
C30_ReferencesReplaced ==
    [][pc = "metadata" =>
           /\ metadata'.title = Dereferenced(UnescapeNamed(getArticleTitle(dom)))
           /\ getArticleTitle(dom) = <<>> => metadata'.title = <<>>]_vars

====
